---- MODULE Spec2Model ----
(***************************************************************************)
(* Model of pdf-element-extractor: region detection and caption matching.  *)
(*                                                                         *)
(* Coordinates are integers.  A Euclidean distance d is carried as         *)
(* D4 = 4*d*d computed on doubled coordinates (edge midpoints are halves), *)
(* which is exact and order preserving, so "d <= t" is "D4 <= 4*t*t".      *)
(* A ratio is carried as a pair [num, den] and compared by cross           *)
(* multiplication.                                                         *)
(***************************************************************************)
EXTENDS Integers, Sequences, FiniteSets, TLC

VARIABLES pc, inp, out, page_data, est, tp, page_index, page_data_list, exit_code

vars == <<pc, inp, out, page_data, est, tp, page_index, page_data_list, exit_code>>

docvars == <<page_data, est, tp, page_index, page_data_list, exit_code>>

-----------------------------------------------------------------------------
(* fitz.Rect and elementary arithmetic                                     *)

Rect(x0, y0, x1, y1) == [x0 |-> x0, y0 |-> y0, x1 |-> x1, y1 |-> y1]

Abs(x) == IF x < 0 THEN -x ELSE x

Min2(a, b) == IF a < b THEN a ELSE b

Max2(a, b) == IF a > b THEN a ELSE b

\* fitz.Rect.is_empty: no positive area
IsEmpty(r) == r.x0 >= r.x1 \/ r.y0 >= r.y1

\* fitz.Rect.__or__ (include_rect): an empty operand is ignored
RectUnion(a, b) ==
    IF IsEmpty(b) THEN a
    ELSE IF IsEmpty(a) THEN b
    ELSE Rect(Min2(a.x0, b.x0), Min2(a.y0, b.y0), Max2(a.x1, b.x1), Max2(a.y1, b.y1))

\* not (a & b).is_empty, and a.intersects(b): a shared part of positive area
Intersects(a, b) ==
    /\ ~IsEmpty(a)
    /\ ~IsEmpty(b)
    /\ Max2(a.x0, b.x0) < Min2(a.x1, b.x1)
    /\ Max2(a.y0, b.y0) < Min2(a.y1, b.y1)

RectArea(r) == (r.x1 - r.x0) * (r.y1 - r.y0)

-----------------------------------------------------------------------------
(* Edge distance (TableProcessor._calculate_edge_distance)                 *)

\* float('inf')
Inf == -1

\* a < b where either may be float('inf')
LessInf(a, b) == a # Inf /\ (b = Inf \/ a < b)

\* the dict of edge midpoints, in insertion order top, bottom, left, right,
\* on doubled coordinates
EdgeMidpoints(b) ==
    << <<b.x0 + b.x1, 2 * b.y0>>,
       <<b.x0 + b.x1, 2 * b.y1>>,
       <<2 * b.x0, b.y0 + b.y1>>,
       <<2 * b.x1, b.y0 + b.y1>> >>

\* edge_total_distance of one pair of midpoints, as D4
PairDistance(e1, e2) ==
    Abs(e2[1] - e1[1]) * Abs(e2[1] - e1[1]) + Abs(e2[2] - e1[2]) * Abs(e2[2] - e1[2])

RECURSIVE EdgeLoop(_, _, _, _, _)
\* the two nested loops with the running minimum; i, j in 1..4
EdgeLoop(edges1, edges2, i, j, min_edge_distance) ==
    IF i > 4 THEN min_edge_distance
    ELSE IF j > 4 THEN EdgeLoop(edges1, edges2, i + 1, 1, min_edge_distance)
    ELSE LET d == PairDistance(edges1[i], edges2[j])
         IN  EdgeLoop(edges1, edges2, i, j + 1,
                      IF LessInf(d, min_edge_distance) THEN d ELSE min_edge_distance)

\* mutant: the second box is measured from its left/right midpoints only
calculate_edge_distance_mut(bbox1, bbox2) ==
    EdgeLoop(EdgeMidpoints(bbox1), EdgeMidpoints(bbox2), 1, 3, Inf)

calculate_edge_distance(bbox1, bbox2) ==
    EdgeLoop(EdgeMidpoints(bbox1), EdgeMidpoints(bbox2), 1, 1, Inf)

-----------------------------------------------------------------------------
(* IoU (TableProcessor._calculate_iou, FigureProcessor._calculate_iou)     *)

Ratio(n, d) == [num |-> n, den |-> d]

\* the float 0.0
Zero == Ratio(0, 1)

\* a > p/q for a ratio a with a positive denominator
RatioGt(a, p, q) == a.num * q > p * a.den

\* mutant: the intersection is not subtracted from the union
table_calculate_iou_mut(rect1, rect2) ==
    LET ix0 == Max2(rect1.x0, rect2.x0)
        iy0 == Max2(rect1.y0, rect2.y0)
        ix1 == Min2(rect1.x1, rect2.x1)
        iy1 == Min2(rect1.y1, rect2.y1)
        intersection_area == (ix1 - ix0) * (iy1 - iy0)
        union_area == RectArea(rect1) + RectArea(rect2)
    IN  IF ix1 <= ix0 \/ iy1 <= iy0 THEN Zero
        ELSE IF union_area > 0 THEN Ratio(intersection_area, union_area)
        ELSE Zero

table_calculate_iou(rect1, rect2) ==
    LET ix0 == Max2(rect1.x0, rect2.x0)
        iy0 == Max2(rect1.y0, rect2.y0)
        ix1 == Min2(rect1.x1, rect2.x1)
        iy1 == Min2(rect1.y1, rect2.y1)
        intersection_area == (ix1 - ix0) * (iy1 - iy0)
        union_area == RectArea(rect1) + RectArea(rect2) - intersection_area
    IN  IF ix1 <= ix0 \/ iy1 <= iy0 THEN Zero
        ELSE IF union_area > 0 THEN Ratio(intersection_area, union_area)
        ELSE Zero

figure_calculate_iou(rect1, rect2) ==
    LET x_left == Max2(rect1.x0, rect2.x0)
        y_top == Max2(rect1.y0, rect2.y0)
        x_right == Min2(rect1.x1, rect2.x1)
        y_bottom == Min2(rect1.y1, rect2.y1)
        intersection == (x_right - x_left) * (y_bottom - y_top)
        union == RectArea(rect1) + RectArea(rect2) - intersection
    IN  IF x_right < x_left \/ y_bottom < y_top THEN Zero
        ELSE IF union > 0 THEN Ratio(intersection, union)
        ELSE Zero

-----------------------------------------------------------------------------
(* SpecGeom: the geometric functions applied to every pair of rectangles   *)
(* over a small grid, degenerate and inverted rectangles included.         *)

GeomCoords == {0, 10, 30}

GeomRects == {Rect(a, b, c, d) : a \in GeomCoords, b \in GeomCoords,
                                 c \in GeomCoords, d \in GeomCoords}

NoDoc ==
    /\ page_data = "none"
    /\ est = "none"
    /\ tp = "none"
    /\ page_index = 0
    /\ page_data_list = <<>>
    /\ exit_code = "none"

InitGeom ==
    /\ pc = "call"
    /\ inp \in [a : GeomRects, b : GeomRects]
    /\ out = [fn |-> "none"]
    /\ NoDoc

CallEdgeDistance ==
    /\ pc = "call"
    /\ out' = [fn |-> "edge_distance",
               ab |-> calculate_edge_distance(inp.a, inp.b),
               ba |-> calculate_edge_distance(inp.b, inp.a)]
    /\ pc' = "done"
    /\ UNCHANGED <<inp, docvars>>

CallTableIoU ==
    /\ pc = "call"
    /\ out' = [fn |-> "table_iou",
               ab |-> table_calculate_iou(inp.a, inp.b),
               aa |-> table_calculate_iou(inp.a, inp.a)]
    /\ pc' = "done"
    /\ UNCHANGED <<inp, docvars>>

CallFigureIoU ==
    /\ pc = "call"
    /\ out' = [fn |-> "figure_iou",
               ab |-> figure_calculate_iou(inp.a, inp.b),
               aa |-> figure_calculate_iou(inp.a, inp.a)]
    /\ pc' = "done"
    /\ UNCHANGED <<inp, docvars>>

NextGeom == CallEdgeDistance \/ CallTableIoU \/ CallFigureIoU

SpecGeom == InitGeom /\ [][NextGeom]_vars

\* the 16 midpoint-pair distances, as a set
MidpointDistances(a, b) ==
    {PairDistance(EdgeMidpoints(a)[i], EdgeMidpoints(b)[j]) : i \in 1..4, j \in 1..4}

SetMin(S) == CHOOSE m \in S : \A n \in S : m <= n

\* C4: edge distance is symmetric, edge_distance(A, B) = edge_distance(B, A),
\* and its value is the minimum over the 16 pairs of edge midpoints.
C4_EdgeDistanceSymmetric ==
    out.fn = "edge_distance" =>
        /\ out.ab = out.ba
        /\ out.ab = SetMin(MidpointDistances(inp.a, inp.b))

\* C4 witness: two different rectangles at a positive distance were measured
\* both ways.
C4_Witness ==
    /\ out.fn = "edge_distance"
    /\ inp.a # inp.b
    /\ inp.a.x1 - inp.a.x0 # inp.b.x1 - inp.b.x0
    /\ out.ab > 0

IsOne(r) == r.num = r.den /\ r.den > 0

\* C10 as stated: IoU(A, A) = 1.0 for every rectangle A, zero-width and
\* zero-height ones included, in both implementations.
C10_IoUSelfIsOneAlways ==
    out.fn \in {"table_iou", "figure_iou"} => IsOne(out.aa)

\* C10 amended: IoU(A, A) = 1.0 for every rectangle A of positive width and
\* height, in both implementations; for a rectangle of zero width or zero
\* height both return 0.0.
C10_IoUSelfIsOne ==
    out.fn \in {"table_iou", "figure_iou"} =>
        /\ (inp.a.x1 > inp.a.x0 /\ inp.a.y1 > inp.a.y0) => IsOne(out.aa)
        /\ (inp.a.x1 = inp.a.x0 \/ inp.a.y1 = inp.a.y0) => out.aa = Zero

\* C10 witness: the figure IoU of a positive-area rectangle with itself was
\* computed.
C10_Witness ==
    /\ out.fn = "figure_iou"
    /\ inp.a.x1 > inp.a.x0
    /\ inp.a.y1 > inp.a.y0
    /\ IsOne(out.aa)

-----------------------------------------------------------------------------
(* Captions and regions (core/models.py)                                   *)

\* Caption as PageData._extract_captions builds it; center_x and center_y
\* hold the doubled centre, x0 + x1 and y0 + y1
Caption(text, bbox, type) ==
    [text |-> text, bbox |-> bbox, center_x |-> bbox.x0 + bbox.x1,
     center_y |-> bbox.y0 + bbox.y1, type |-> type]

\* the tuple (center_x, center_y, text) captions are compared by
CaptionKey(caption) == <<caption.center_x, caption.center_y, caption.text>>

TableRegion(bbox, caption, distance) ==
    [bbox |-> bbox, caption |-> caption, distance_to_caption |-> distance]

-----------------------------------------------------------------------------
(* CaptionPatternEstimator getters and TableProcessor.__init__             *)

\* a CaptionPatternEstimator on which no attribute has been set; has is the
\* set of attributes assigned so far (getattr falls back to a default for
\* the others, whose fields below are then placeholders)
FreshEstimator ==
    [has |-> {}, estimated_pattern |-> "None", confidence |-> "low",
     suggested_threshold |-> 0, prefer_position |-> FALSE]

get_estimated_pattern(e) ==
    IF "_estimated_pattern" \in e.has THEN e.estimated_pattern ELSE "None"

get_confidence(e) == IF "_confidence" \in e.has THEN e.confidence ELSE "low"

get_suggested_threshold(e) ==
    IF "_suggested_threshold" \in e.has THEN e.suggested_threshold ELSE 50

should_prefer_position(e) ==
    IF "_prefer_position" \in e.has THEN e.prefer_position ELSE FALSE

\* TableProcessor.__init__; pattern_estimator is <<>> for None, else <<e>>
TableProcessorInit(pattern_estimator) ==
    IF pattern_estimator = <<>>
    THEN [pattern_estimator |-> <<>>, document_pattern |-> "None",
          pattern_confidence |-> "low", suggested_threshold |-> 50]
    ELSE [pattern_estimator |-> pattern_estimator,
          document_pattern |-> get_estimated_pattern(pattern_estimator[1]),
          pattern_confidence |-> get_confidence(pattern_estimator[1]),
          suggested_threshold |-> get_suggested_threshold(pattern_estimator[1])]

\* threshold = self.suggested_threshold if self.suggested_threshold > 0 else 50
MatchThreshold(self) ==
    IF self.suggested_threshold > 0 THEN self.suggested_threshold ELSE 50

\* mutant: the threshold test always passes
WithinThreshold_mut(distance, threshold) == TRUE

\* distance <= threshold, the distance being a D4 value
WithinThreshold(distance, threshold) == distance <= 4 * threshold * threshold

-----------------------------------------------------------------------------
(* Single-caption path                                                     *)

RECURSIVE SingleTableLoop(_, _, _, _, _)
SingleTableLoop(self, envelopes, table_captions, i, table_regions) ==
    IF i > Len(envelopes) THEN table_regions
    ELSE IF table_captions = <<>>
         THEN SingleTableLoop(self, envelopes, table_captions, i + 1, table_regions)
    ELSE LET caption == table_captions[1]
             distance == calculate_edge_distance(envelopes[i], caption.bbox)
         IN  SingleTableLoop(self, envelopes, table_captions, i + 1,
                 IF WithinThreshold(distance, MatchThreshold(self))
                 THEN Append(table_regions, TableRegion(envelopes[i], caption, distance))
                 ELSE table_regions)

\* mutant: the comparison with the threshold is strict
create_table_regions_single_table_mut(self, envelopes, table_captions) ==
    SelectSeq(SingleTableLoop(self, envelopes, table_captions, 1, <<>>),
              LAMBDA r : r.distance_to_caption
                           < 4 * MatchThreshold(self) * MatchThreshold(self))

create_table_regions_single_table(self, envelopes, table_captions) ==
    SingleTableLoop(self, envelopes, table_captions, 1, <<>>)

-----------------------------------------------------------------------------
(* Multi-caption heuristic path                                            *)

RECURSIVE InsertByDistance(_, _)
\* list.sort(key=distance) is stable: c goes after the entries not farther
InsertByDistance(sorted, c) ==
    IF sorted = <<>> THEN <<c>>
    ELSE IF c[2] < sorted[1][2] THEN <<c>> \o sorted
    ELSE <<sorted[1]>> \o InsertByDistance(Tail(sorted), c)

RECURSIVE SortByDistance(_)
SortByDistance(candidates) ==
    IF candidates = <<>> THEN <<>>
    ELSE InsertByDistance(SortByDistance(SubSeq(candidates, 1, Len(candidates) - 1)),
                          candidates[Len(candidates)])

RECURSIVE CandidatesOf(_, _, _, _)
\* the inner loop of _assign_bbox_to_candidates: (caption, distance) pairs
CandidatesOf(self, envelope, table_captions, k) ==
    IF k > Len(table_captions) THEN <<>>
    ELSE LET distance == calculate_edge_distance(envelope, table_captions[k].bbox)
             rest == CandidatesOf(self, envelope, table_captions, k + 1)
         IN  IF WithinThreshold(distance, MatchThreshold(self))
             THEN <<(<<table_captions[k], distance>>)>> \o rest
             ELSE rest

\* bbox_candidates: entry i is the sorted candidate list of envelope i, the
\* empty list standing for an absent key
assign_bbox_to_candidates(self, envelopes, table_captions) ==
    [i \in 1..Len(envelopes) |->
        SortByDistance(CandidatesOf(self, envelopes[i], table_captions, 1))]

\* relative position of a caption to an envelope
RelativePosition(caption, envelope) ==
    IF caption.center_y < 2 * envelope.y0 THEN "above"
    ELSE IF caption.center_y > 2 * envelope.y1 THEN "below"
    ELSE "overlap"

filter_by_position_pattern(self, bbox_candidates, envelopes) ==
    IF self.document_pattern = "None" \/ self.document_pattern = "mixed"
    THEN bbox_candidates
    ELSE [i \in 1..Len(bbox_candidates) |->
            SelectSeq(bbox_candidates[i],
                LAMBDA c : \/ /\ self.document_pattern = "above"
                              /\ RelativePosition(c[1], envelopes[i]) = "above"
                           \/ /\ self.document_pattern = "below"
                              /\ RelativePosition(c[1], envelopes[i]) = "below")]

RECURSIVE OneToOneLoop(_, _, _, _, _)
\* returns [table_regions, used_captions]
OneToOneLoop(bbox_candidates, envelopes, i, table_regions, used_captions) ==
    IF i > Len(bbox_candidates)
    THEN [table_regions |-> table_regions, used_captions |-> used_captions]
    ELSE LET candidates == bbox_candidates[i]
         IN  IF Len(candidates) = 1 /\ CaptionKey(candidates[1][1]) \notin used_captions
             THEN OneToOneLoop(bbox_candidates, envelopes, i + 1,
                      Append(table_regions,
                             TableRegion(envelopes[i], candidates[1][1], candidates[1][2])),
                      used_captions \cup {CaptionKey(candidates[1][1])})
             ELSE OneToOneLoop(bbox_candidates, envelopes, i + 1,
                               table_regions, used_captions)

resolve_one_to_one_matches(bbox_candidates, envelopes) ==
    OneToOneLoop(bbox_candidates, envelopes, 1, <<>>, {})

RECURSIVE FirstMin(_, _)
\* min(available_candidates, key=distance): the first of the nearest
FirstMin(candidates, best) ==
    IF candidates = <<>> THEN best
    ELSE FirstMin(Tail(candidates),
                  IF candidates[1][2] < best[2] THEN candidates[1] ELSE best)

RECURSIVE MultiLoop(_, _, _, _)
\* remaining_candidates as a sequence over the envelopes, <<>> for no key
MultiLoop(bbox_candidates, i, remaining, used_captions) ==
    IF i > Len(bbox_candidates) THEN remaining
    ELSE LET available == SelectSeq(bbox_candidates[i],
                              LAMBDA c : CaptionKey(c[1]) \notin used_captions)
         IN  IF available = <<>>
             THEN MultiLoop(bbox_candidates, i + 1, Append(remaining, <<>>), used_captions)
             ELSE LET best == FirstMin(Tail(available), available[1])
                  IN  MultiLoop(bbox_candidates, i + 1, Append(remaining, <<best>>),
                                used_captions \cup {CaptionKey(best[1])})

\* mutant: the captions used by the one-to-one pass are forgotten
resolve_multi_candidates_mut(bbox_candidates, envelopes, used_captions) ==
    MultiLoop(bbox_candidates, 1, <<>>, {})

resolve_multi_candidates(bbox_candidates, envelopes, used_captions) ==
    MultiLoop(bbox_candidates, 1, <<>>, used_captions)

RECURSIVE create_final_table_regions(_, _, _)
create_final_table_regions(remaining_candidates, envelopes, i) ==
    IF i > Len(remaining_candidates) THEN <<>>
    ELSE (IF remaining_candidates[i] = <<>> THEN <<>>
          ELSE <<TableRegion(envelopes[i], remaining_candidates[i][1][1],
                             remaining_candidates[i][1][2])>>)
         \o create_final_table_regions(remaining_candidates, envelopes, i + 1)

\* mutant: multi-candidate envelopes are resolved without looking at the
\* captions the one-to-one pass used, and take their farthest candidate
heuristic_multi_table_matching_mut(self, envelopes, table_captions) ==
    LET bbox_candidates == assign_bbox_to_candidates(self, envelopes, table_captions)
        one == resolve_one_to_one_matches(bbox_candidates, envelopes)
        remaining == [i \in 1..Len(bbox_candidates) |->
                        IF Len(bbox_candidates[i]) > 1
                        THEN <<bbox_candidates[i][Len(bbox_candidates[i])]>>
                        ELSE <<>>]
    IN  one.table_regions \o create_final_table_regions(remaining, envelopes, 1)

heuristic_multi_table_matching(self, envelopes, table_captions) ==
    LET assigned == assign_bbox_to_candidates(self, envelopes, table_captions)
        bbox_candidates ==
            IF self.pattern_estimator # <<>>
               /\ should_prefer_position(self.pattern_estimator[1])
            THEN filter_by_position_pattern(self, assigned, envelopes)
            ELSE assigned
        one == resolve_one_to_one_matches(bbox_candidates, envelopes)
        remaining_candidates ==
            resolve_multi_candidates(bbox_candidates, envelopes, one.used_captions)
    IN  one.table_regions \o create_final_table_regions(remaining_candidates, envelopes, 1)

-----------------------------------------------------------------------------
(* SpecMatch: TableProcessor's matching stage on merged envelopes and the  *)
(* page's table captions, for processors built from several estimators.    *)

MaxEnvelopes == 2

MaxCaptions == 3

MatchEnvelopes ==
    {Rect(100, 100, 300, 180), Rect(100, 250, 300, 330), Rect(100, 400, 300, 480)}

MatchCaptions ==
    {Caption("Table 1", Rect(150, 70, 250, 90), "table"),
     Caption("Table 2", Rect(150, 215, 250, 230), "table"),
     Caption("Table 3", Rect(150, 350, 250, 370), "table"),
     Caption("Table 4", Rect(150, 500, 250, 520), "table"),
     Caption("Table 4", Rect(150, 490, 250, 530), "table")}

\* estimators handed to TableProcessor: none, a fresh one, and ones whose
\* estimation stored a threshold
MatchEstimators ==
    {<<>>, <<FreshEstimator>>}
    \cup {<<[FreshEstimator EXCEPT !.has = {"_suggested_threshold"},
                                   !.suggested_threshold = t]>> : t \in {0, 30}}

SeqsUpTo(S, n) == UNION {[1..k -> S] : k \in 0..n}

InjectiveSeqsUpTo(S, n) ==
    {s \in SeqsUpTo(S, n) : \A i, j \in 1..Len(s) : i # j => s[i] # s[j]}

InitMatch ==
    /\ pc = "call"
    /\ \E e \in MatchEstimators,
          envelopes \in InjectiveSeqsUpTo(MatchEnvelopes, MaxEnvelopes),
          table_captions \in InjectiveSeqsUpTo(MatchCaptions, MaxCaptions) :
            /\ table_captions # <<>>
            /\ inp = [self |-> TableProcessorInit(e), envelopes |-> envelopes,
                      table_captions |-> table_captions]
    /\ out = [fn |-> "none"]
    /\ NoDoc

CallSingleTable ==
    /\ pc = "call"
    /\ Len(inp.table_captions) = 1
    /\ out' = [fn |-> "single",
               table_regions |-> create_table_regions_single_table(
                                     inp.self, inp.envelopes, inp.table_captions)]
    /\ pc' = "done"
    /\ UNCHANGED <<inp, docvars>>

CallMultiTable ==
    /\ pc = "call"
    /\ Len(inp.table_captions) > 1
    /\ out' = [fn |-> "multi",
               table_regions |-> heuristic_multi_table_matching(
                                     inp.self, inp.envelopes, inp.table_captions)]
    /\ pc' = "done"
    /\ UNCHANGED <<inp, docvars>>

NextMatch == CallSingleTable \/ CallMultiTable

SpecMatch == InitMatch /\ [][NextMatch]_vars

\* the edge distance stated from its definition (minimum over the 16 pairs)
EdgeDist(a, b) == SetMin(MidpointDistances(a, b))

\* the threshold in use: the stored suggestion, 50 when it is not positive
ThresholdInUse == IF inp.self.suggested_threshold > 0
                  THEN inp.self.suggested_threshold ELSE 50

Near(envelope, caption) == EdgeDist(envelope, caption.bbox) <= 4 * ThresholdInUse * ThresholdInUse

\* C1: on a single-caption page an envelope E yields a TableRegion with bbox E
\* (captioned by the page's caption) iff edge_distance(E, caption) <= threshold,
\* and nothing else is produced.
C1_SingleCaptionThreshold ==
    out.fn = "single" =>
        LET caption == inp.table_captions[1]
            kept == SelectSeq(inp.envelopes, LAMBDA e : Near(e, caption))
        IN  /\ Len(out.table_regions) = Len(kept)
            /\ \A k \in 1..Len(kept) :
                  /\ out.table_regions[k].bbox = kept[k]
                  /\ out.table_regions[k].caption = caption
            /\ inp.self.pattern_estimator \in {<<>>, <<FreshEstimator>>}
                  => ThresholdInUse = 50

\* C1 witness: with the threshold at 30, of two envelopes one (exactly 30 away
\* from the caption) gave a region and the other gave none.
C1_Witness ==
    /\ out.fn = "single"
    /\ inp.self.suggested_threshold = 30
    /\ Len(inp.envelopes) = 2
    /\ Len(out.table_regions) = 1
    /\ out.table_regions[1].distance_to_caption = 4 * 30 * 30

Perms(n) == {p \in [1..n -> 1..n] : \A i, j \in 1..n : i # j => p[i] # p[j]}

PermuteSeq(s, p) == [i \in 1..Len(s) |-> s[p[i]]]

\* the emitted matching as a set of (envelope, caption) pairs
Matching(table_regions) ==
    {<<table_regions[k].bbox, table_regions[k].caption>> : k \in 1..Len(table_regions)}

\* keys of the captions within the threshold of an envelope
CandidateKeys(envelope) ==
    {CaptionKey(inp.table_captions[k]) :
        k \in {j \in 1..Len(inp.table_captions) : Near(envelope, inp.table_captions[j])}}

NearestCaptions(envelope) ==
    {k \in 1..Len(inp.table_captions) :
        \A j \in 1..Len(inp.table_captions) :
            EdgeDist(envelope, inp.table_captions[k].bbox)
                <= EdgeDist(envelope, inp.table_captions[j].bbox)}

DisjointCandidates ==
    /\ out.fn = "multi"
    /\ Len(inp.envelopes) = 2
    /\ CandidateKeys(inp.envelopes[1]) # {}
    /\ CandidateKeys(inp.envelopes[2]) # {}
    /\ CandidateKeys(inp.envelopes[1]) \cap CandidateKeys(inp.envelopes[2]) = {}

TwoNearestRegions ==
    /\ Len(out.table_regions) = 2
    /\ \A i \in 1..2 :
          \E k \in 1..2 :
             /\ out.table_regions[k].bbox = inp.envelopes[i]
             /\ \E n \in NearestCaptions(inp.envelopes[i]) :
                   out.table_regions[k].caption = inp.table_captions[n]
    /\ \A p \in Perms(2), q \in Perms(Len(inp.table_captions)) :
          Matching(heuristic_multi_table_matching(inp.self,
                       PermuteSeq(inp.envelopes, p), PermuteSeq(inp.table_captions, q)))
            = Matching(out.table_regions)

\* C2 as stated: two envelopes with non-empty disjoint candidate sets give
\* exactly two regions, each with a nearest caption, the same for every
\* ordering of the envelopes and of the captions.
C2_DisjointAnyOrder == DisjointCandidates => TwoNearestRegions

\* C2 amended: the same, provided each envelope has a single nearest caption
\* (no two captions at the same minimal edge distance from it).
C2_DisjointUniqueNearest ==
    ( /\ DisjointCandidates
      /\ \A i \in 1..2 : Cardinality(NearestCaptions(inp.envelopes[i])) = 1 )
    => TwoNearestRegions

\* C2 witness: two envelopes, one with a single candidate and one with several,
\* each with a single nearest caption, were matched.
C2_Witness ==
    /\ DisjointCandidates
    /\ \A i \in 1..2 : Cardinality(NearestCaptions(inp.envelopes[i])) = 1
    /\ \E i \in 1..2 : Cardinality(CandidateKeys(inp.envelopes[i])) = 1
    /\ \E i \in 1..2 : Cardinality(CandidateKeys(inp.envelopes[i])) > 1
    /\ Len(out.table_regions) = 2

-----------------------------------------------------------------------------
(* LineProcessor                                                           *)

\* DrawingElement; fill is "None" or a colour; width and height are those of
\* the rectangle
DrawingElement(rect, fill) ==
    [rect |-> rect, fill |-> fill, width |-> rect.x1 - rect.x0,
     height |-> rect.y1 - rect.y0]

\* LineProcessor.__init__
LineProcessorInit == [horizontal_lines |-> <<>>, vertical_lines |-> <<>>]

RECURSIVE ClassifyLoop(_, _, _)
ClassifyLoop(drawing_elements, k, lp) ==
    IF k > Len(drawing_elements) THEN lp
    ELSE LET element == drawing_elements[k]
         IN  ClassifyLoop(drawing_elements, k + 1,
                 IF element.fill = "None"
                 THEN IF element.width > element.height
                      THEN [lp EXCEPT !.horizontal_lines = Append(@, element.rect)]
                      ELSE [lp EXCEPT !.vertical_lines = Append(@, element.rect)]
                 ELSE lp)

\* mutant: an element as wide as it is high counts as horizontal
classify_lines_mut(drawing_elements) ==
    LET wide == SelectSeq(drawing_elements,
                          LAMBDA e : e.fill = "None" /\ e.width >= e.height)
        high == SelectSeq(drawing_elements,
                          LAMBDA e : e.fill = "None" /\ e.width < e.height)
    IN  [horizontal_lines |-> [k \in 1..Len(wide) |-> wide[k].rect],
         vertical_lines |-> [k \in 1..Len(high) |-> high[k].rect]]

\* both lists are cleared, then refilled
classify_lines(drawing_elements) == ClassifyLoop(drawing_elements, 1, LineProcessorInit)

LineGroup(lines, envelope, group_type) ==
    [lines |-> lines, envelope |-> envelope, group_type |-> group_type]

\* n / d as a ratio with a positive denominator (d # 0)
NormRatio(n, d) == IF d < 0 THEN Ratio(-n, -d) ELSE Ratio(n, d)

\* the length ratio of two lines; the pair is skipped (continue) when a
\* width is 0, else the ratio is min / max
line_length_ratio(width1, width2) ==
    IF width1 = 0 \/ width2 = 0 THEN [skipped |-> TRUE, ratio |-> Zero]
    ELSE [skipped |-> FALSE,
          ratio |-> NormRatio(Min2(width1, width2), Max2(width1, width2))]

SeqMinY0(group) == SetMin({group[k].y0 : k \in 1..Len(group)})

SetMax(S) == CHOOSE m \in S : \A n \in S : m >= n

SeqMaxY0(group) == SetMax({group[k].y0 : k \in 1..Len(group)})

\* the test the inner loop makes for line2 = lines[j] against the seed line1
ShouldJoinGroup(line1, line2, current_group, line_type, table_captions) ==
    LET width1 == line1.x1 - line1.x0
        width2 == line2.x1 - line2.x0
    IN  IF line_length_ratio(width1, width2).skipped THEN FALSE
        ELSE LET length_ratio == line_length_ratio(width1, width2).ratio
                 x_start_match == Abs(line1.x0 - line2.x0) < 5
                 y_match == Abs(line1.y0 - line2.y0) < 5
                 similar == RatioGt(length_ratio, 19, 20) /\ (x_start_match \/ y_match)
                 new_y_min == Min2(SeqMinY0(current_group), line2.y0)
                 new_y_max == Max2(SeqMaxY0(current_group), line2.y0)
                 crosses_annotation ==
                     /\ line_type = "horizontal"
                     /\ table_captions # <<>>
                     /\ similar
                     /\ \E c \in 1..Len(table_captions) :
                           /\ 2 * new_y_min < table_captions[c].center_y
                           /\ table_captions[c].center_y < 2 * new_y_max
             IN  similar /\ ~crosses_annotation

RECURSIVE MergeInner(_, _, _, _, _, _, _)
\* the scan of all lines for seed i; returns [group, used]
MergeInner(lines, line_type, table_captions, i, j, current_group, used_lines) ==
    IF j > Len(lines) THEN [group |-> current_group, used |-> used_lines]
    ELSE IF j \in used_lines
         THEN MergeInner(lines, line_type, table_captions, i, j + 1,
                         current_group, used_lines)
    ELSE IF ShouldJoinGroup(lines[i], lines[j], current_group, line_type, table_captions)
         THEN MergeInner(lines, line_type, table_captions, i, j + 1,
                         Append(current_group, lines[j]), used_lines \cup {j})
    ELSE MergeInner(lines, line_type, table_captions, i, j + 1,
                    current_group, used_lines)

RECURSIVE UnionAll(_, _)
\* envelope |= line over the rest of the group
UnionAll(envelope, rest) ==
    IF rest = <<>> THEN envelope
    ELSE UnionAll(RectUnion(envelope, rest[1]), Tail(rest))

RECURSIVE MergeOuter(_, _, _, _, _, _)
MergeOuter(lines, line_type, table_captions, i, used_lines, merged_groups) ==
    IF i > Len(lines) THEN merged_groups
    ELSE IF i \in used_lines
         THEN MergeOuter(lines, line_type, table_captions, i + 1, used_lines, merged_groups)
    ELSE LET r == MergeInner(lines, line_type, table_captions, i, 1,
                             <<lines[i]>>, used_lines \cup {i})
             envelope == UnionAll(r.group[1], Tail(r.group))
         IN  MergeOuter(lines, line_type, table_captions, i + 1, r.used,
                        Append(merged_groups, LineGroup(r.group, envelope, line_type)))

\* mutant: the captions are not handed to the merge
merge_lines_mut(lines, line_type, table_captions) ==
    MergeOuter(lines, line_type, <<>>, 1, {}, <<>>)

\* table_captions is <<>> when the argument is None
merge_lines(lines, line_type, table_captions) ==
    MergeOuter(lines, line_type, table_captions, 1, {}, <<>>)

merge_horizontal_lines(lp, table_captions) ==
    merge_lines(lp.horizontal_lines, "horizontal", table_captions)

merge_vertical_lines(lp) == merge_lines(lp.vertical_lines, "vertical", <<>>)

-----------------------------------------------------------------------------
(* SpecLines: a LineProcessor classifying a page's drawing elements and    *)
(* merging its lines; tp holds the LineProcessor.                          *)

MaxLineElements == 3

MaxLineCaptions == 2

LineElements ==
    {DrawingElement(Rect(100, 100, 300, 100), "None"),
     DrawingElement(Rect(100, 103, 295, 103), "None"),
     DrawingElement(Rect(100, 120, 300, 120), "None"),
     DrawingElement(Rect(100, 108, 300, 112), "None"),
     DrawingElement(Rect(104, 140, 300, 140), "None"),
     DrawingElement(Rect(100, 130, 200, 130), "None"),
     DrawingElement(Rect(100, 100, 100, 140), "None"),
     DrawingElement(Rect(100, 100, 102, 140), "None"),
     DrawingElement(Rect(200, 200, 240, 240), "None"),
     DrawingElement(Rect(100, 100, 300, 140), "fill")}

LineCaptions ==
    {Caption("Table 1", Rect(150, 105, 250, 115), "table"),
     Caption("Table 2", Rect(150, 125, 250, 135), "table")}

InitLines ==
    /\ pc = "classify"
    /\ \E drawing_elements \in SeqsUpTo(LineElements, MaxLineElements),
          table_captions \in InjectiveSeqsUpTo(LineCaptions, MaxLineCaptions) :
            inp = [drawing_elements |-> drawing_elements,
                   table_captions |-> table_captions]
    /\ out = [fn |-> "none"]
    /\ tp = LineProcessorInit
    /\ page_data = "none"
    /\ est = "none"
    /\ page_index = 0
    /\ page_data_list = <<>>
    /\ exit_code = "none"

ClassifyLines ==
    /\ pc = "classify"
    /\ tp' = classify_lines(inp.drawing_elements)
    /\ pc' = "merge"
    /\ UNCHANGED <<inp, out, page_data, est, page_index, page_data_list, exit_code>>

MergeHorizontalLines ==
    /\ pc = "merge"
    /\ out' = [fn |-> "merge_horizontal",
               groups |-> merge_horizontal_lines(tp, inp.table_captions)]
    /\ pc' = "done"
    /\ UNCHANGED <<inp, tp, docvars>>

MergeVerticalLines ==
    /\ pc = "merge"
    /\ out' = [fn |-> "merge_vertical", groups |-> merge_vertical_lines(tp)]
    /\ pc' = "done"
    /\ UNCHANGED <<inp, tp, docvars>>

NextLines == ClassifyLines \/ MergeHorizontalLines \/ MergeVerticalLines

SpecLines == InitLines /\ [][NextLines]_vars

\* the doubled centre of some table caption lies strictly between lo and hi
StraddlesCaption(lo, hi) ==
    \E c \in 1..Len(inp.table_captions) :
        /\ 2 * lo < inp.table_captions[c].center_y
        /\ inp.table_captions[c].center_y < 2 * hi

GroupTop(g) == SetMin({g.lines[k].y0 : k \in 1..Len(g.lines)})

GroupBottom(g) == SetMax({g.lines[k].y1 : k \in 1..Len(g.lines)})

GroupLowestTop(g) == SetMax({g.lines[k].y0 : k \in 1..Len(g.lines)})

\* C5 as stated: no horizontal line group spans, from the top of its topmost
\* member to the bottom of its bottommost member, the vertical centroid of a
\* table caption.
C5_NoGroupSpansCaption ==
    out.fn = "merge_horizontal" =>
        \A g \in 1..Len(out.groups) :
            ~StraddlesCaption(GroupTop(out.groups[g]), GroupBottom(out.groups[g]))

\* C5 amended: no horizontal line group has the vertical centroid of a table
\* caption strictly between the top edges (y0) of its topmost and bottommost
\* members.
C5_NoGroupTopsSpanCaption ==
    out.fn = "merge_horizontal" =>
        \A g \in 1..Len(out.groups) :
            ~StraddlesCaption(GroupTop(out.groups[g]), GroupLowestTop(out.groups[g]))

\* C5 witness: two mergeable horizontal lines with a caption centroid between
\* them were kept in separate groups.
C5_Witness ==
    /\ out.fn = "merge_horizontal"
    /\ Len(tp.horizontal_lines) = 2
    /\ Len(out.groups) = 2
    /\ ShouldJoinGroup(tp.horizontal_lines[1], tp.horizontal_lines[2],
                       <<tp.horizontal_lines[1]>>, "horizontal", <<>>)
    /\ StraddlesCaption(Min2(tp.horizontal_lines[1].y0, tp.horizontal_lines[2].y0),
                        Max2(tp.horizontal_lines[1].y0, tp.horizontal_lines[2].y0))

-----------------------------------------------------------------------------
(* Figure regions and the figure filters (processors.py, filters.py).      *)
(* Every distance_to_caption is a D4 value.                                *)

\* caption = None
NoCaption == [text |-> "", bbox |-> Rect(0, 0, 0, 0), center_x |-> 0,
              center_y |-> 0, type |-> "None"]

FigureRegion(bbox, caption, distance, element_count) ==
    [bbox |-> bbox, caption |-> caption, distance_to_caption |-> distance,
     element_count |-> element_count]

RECURSIVE BestCaption(_, _, _, _, _)
\* the caption loop of _create_figure_regions; returns <<caption, distance>>
BestCaption(rect, figure_captions, k, best_caption, best_distance) ==
    IF k > Len(figure_captions) THEN <<best_caption, best_distance>>
    ELSE LET min_edge_distance == calculate_edge_distance(rect, figure_captions[k].bbox)
         IN  IF LessInf(min_edge_distance, best_distance)
             THEN BestCaption(rect, figure_captions, k + 1,
                              figure_captions[k], min_edge_distance)
             ELSE BestCaption(rect, figure_captions, k + 1, best_caption, best_distance)

RECURSIVE create_figure_regions(_, _)
\* merged_groups: sequence of [rect, count]
create_figure_regions(merged_groups, figure_captions) ==
    IF merged_groups = <<>> THEN <<>>
    ELSE LET group == merged_groups[1]
             best == BestCaption(group.rect, figure_captions, 1, NoCaption, Inf)
         IN  (IF best[1] # NoCaption
              THEN <<FigureRegion(group.rect, best[1], best[2], group.count)>>
              ELSE <<>>)
             \o create_figure_regions(Tail(merged_groups), figure_captions)

\* the intersection rectangle of two intersecting rectangles
RectIntersection(a, b) ==
    Rect(Max2(a.x0, b.x0), Max2(a.y0, b.y0), Min2(a.x1, b.x1), Min2(a.y1, b.y1))

\* overlap_ratio of _apply_figure_filters, computed for a caption the
\* figure intersects: intersection_area / figure_area if figure_area > 0 else 0
caption_overlap_ratio(figure_bbox, caption_bbox) ==
    LET intersection_area == RectArea(RectIntersection(figure_bbox, caption_bbox))
        figure_area == RectArea(figure_bbox)
    IN  IF figure_area > 0 THEN Ratio(intersection_area, figure_area) ELSE Zero

\* a caption overlaps more than 20% of the figure's area
OverlapsTooMuch(figure_bbox, caption_bbox) ==
    /\ Intersects(figure_bbox, caption_bbox)
    /\ RatioGt(caption_overlap_ratio(figure_bbox, caption_bbox), 2, 10)

\* step 1 of _apply_figure_filters
overlap_filter(figure_regions, pd) ==
    SelectSeq(figure_regions,
        LAMBDA fr :
            /\ \A t \in 1..Len(pd.table_regions) :
                  ~Intersects(fr.bbox, pd.table_regions[t].bbox)
            /\ \A c \in 1..Len(pd.table_captions) :
                  ~OverlapsTooMuch(fr.bbox, pd.table_captions[c].bbox)
            /\ \A c \in 1..Len(pd.figure_captions) :
                  pd.figure_captions[c] # fr.caption
                      => ~OverlapsTooMuch(fr.bbox, pd.figure_captions[c].bbox))

\* the vertical distance of FigureAnnotationCoverFilter.apply, as D4
CoverDistance(bbox, caption) ==
    IF bbox.y1 <= caption.bbox.y0
    THEN 4 * (caption.bbox.y0 - bbox.y1) * (caption.bbox.y0 - bbox.y1)
    ELSE IF bbox.y0 >= caption.bbox.y1
    THEN 4 * (bbox.y0 - caption.bbox.y1) * (bbox.y0 - caption.bbox.y1)
    ELSE ((bbox.y0 + bbox.y1) - (caption.bbox.y0 + caption.bbox.y1))
         * ((bbox.y0 + bbox.y1) - (caption.bbox.y0 + caption.bbox.y1))

RECURSIVE CoverNearest(_, _, _, _, _)
CoverNearest(fr, figure_captions, k, best_caption, min_distance) ==
    IF k > Len(figure_captions) THEN <<best_caption, min_distance>>
    ELSE LET distance == CoverDistance(fr.bbox, figure_captions[k])
         IN  IF LessInf(distance, min_distance)
             THEN CoverNearest(fr, figure_captions, k + 1, figure_captions[k], distance)
             ELSE CoverNearest(fr, figure_captions, k + 1, best_caption, min_distance)

\* step 1 of the cover filter: every region takes its vertically nearest caption
CoverAssign(figure_regions, figure_captions) ==
    [k \in 1..Len(figure_regions) |->
        LET best == CoverNearest(figure_regions[k], figure_captions, 1, NoCaption, Inf)
        IN  IF best[1] # NoCaption
            THEN [figure_regions[k] EXCEPT !.caption = best[1],
                                          !.distance_to_caption = best[2]]
            ELSE [figure_regions[k] EXCEPT !.caption = NoCaption]]

\* the grouping key: the caption key, or <<>> for None
GroupKey(fr) == IF fr.caption = NoCaption THEN <<>> ELSE CaptionKey(fr.caption)

RECURSIVE KeysInOrder(_, _)
\* the keys of annotation_to_figures in insertion order
KeysInOrder(figure_regions, seen) ==
    IF figure_regions = <<>> THEN <<>>
    ELSE IF GroupKey(figure_regions[1]) \in seen
         THEN KeysInOrder(Tail(figure_regions), seen)
    ELSE <<GroupKey(figure_regions[1])>>
         \o KeysInOrder(Tail(figure_regions), seen \cup {GroupKey(figure_regions[1])})

RECURSIVE InsertByX0(_, _)
InsertByX0(sorted, f) ==
    IF sorted = <<>> THEN <<f>>
    ELSE IF f.bbox.x0 < sorted[1].bbox.x0 THEN <<f>> \o sorted
    ELSE <<sorted[1]>> \o InsertByX0(Tail(sorted), f)

RECURSIVE SortByX0(_)
\* sorted(figures, key=lambda f: f.bbox.x0), stable
SortByX0(figures) ==
    IF figures = <<>> THEN <<>>
    ELSE InsertByX0(SortByX0(SubSeq(figures, 1, Len(figures) - 1)), figures[Len(figures)])

Covers(bbox, annotation_bbox) ==
    bbox.x0 <= annotation_bbox.x0 /\ bbox.x1 >= annotation_bbox.x1

\* fitz.Rect(min, min, max, max) of two boxes
Hull(a, b) ==
    Rect(Min2(a.x0, b.x0), Min2(a.y0, b.y0), Max2(a.x1, b.x1), Max2(a.y1, b.y1))

RECURSIVE CoverInner(_, _, _, _)
\* the inner while loop: returns [bbox, j]
CoverInner(figures, annotation_bbox, current_bbox, j) ==
    IF j > Len(figures) THEN [bbox |-> current_bbox, j |-> j]
    ELSE LET candidate_bbox == Hull(current_bbox, figures[j].bbox)
         IN  IF Covers(candidate_bbox, annotation_bbox)
             THEN [bbox |-> candidate_bbox, j |-> j + 1]
             ELSE CoverInner(figures, annotation_bbox, candidate_bbox, j + 1)

RECURSIVE CoverOuter(_, _, _)
CoverOuter(figures, annotation_bbox, i) ==
    IF i > Len(figures) THEN <<>>
    ELSE LET r == CoverInner(figures, annotation_bbox, figures[i].bbox, i + 1)
         IN  <<r.bbox>> \o CoverOuter(figures, annotation_bbox, r.j)

\* figures sorted by x0; returns the merged boxes
merge_to_cover_annotation(figures, annotation_bbox) ==
    CoverOuter(figures, annotation_bbox, 1)

RECURSIVE SumCounts(_)
SumCounts(figures) ==
    IF figures = <<>> THEN 0 ELSE figures[1].element_count + SumCounts(Tail(figures))

MinDistance(figures) == SetMin({figures[k].distance_to_caption : k \in 1..Len(figures)})

\* the regions the cover filter emits for one key of annotation_to_figures
CoverGroup(assigned, key) ==
    LET figures == SelectSeq(assigned, LAMBDA f : GroupKey(f) = key)
    IN  IF key = <<>> \/ Len(figures) = 1 THEN figures
        ELSE LET caption == figures[1].caption
                 sorted == SortByX0(figures)
                 merged_groups == merge_to_cover_annotation(sorted, caption.bbox)
             IN  [g \in 1..Len(merged_groups) |->
                    FigureRegion(merged_groups[g], caption, MinDistance(sorted),
                                 SumCounts(sorted))]

RECURSIVE CoverGroups(_, _)
CoverGroups(assigned, keys) ==
    IF keys = <<>> THEN <<>>
    ELSE CoverGroup(assigned, keys[1]) \o CoverGroups(assigned, Tail(keys))

\* FigureAnnotationCoverFilter.apply
cover_filter_apply(figure_regions, figure_captions) ==
    IF figure_regions = <<>> \/ figure_captions = <<>> THEN figure_regions
    ELSE LET assigned == CoverAssign(figure_regions, figure_captions)
         IN  CoverGroups(assigned, KeysInOrder(assigned, {}))

-----------------------------------------------------------------------------
(* FigureBboxAlignmentFilter                                               *)

\* mutant: the whole extra width goes to the right
align_horizontal_mut(figure_bbox, annotation_bbox) ==
    IF figure_bbox.x1 - figure_bbox.x0 < annotation_bbox.x1 - annotation_bbox.x0
    THEN Rect(figure_bbox.x0, figure_bbox.y0,
              figure_bbox.x0 + (annotation_bbox.x1 - annotation_bbox.x0), figure_bbox.y1)
    ELSE figure_bbox

\* the model's coordinates are even, so extra_width / 2 is exact
align_horizontal(figure_bbox, annotation_bbox) ==
    IF figure_bbox.x1 - figure_bbox.x0 < annotation_bbox.x1 - annotation_bbox.x0
    THEN LET target_width == annotation_bbox.x1 - annotation_bbox.x0
             current_width == figure_bbox.x1 - figure_bbox.x0
             extra_width == target_width - current_width
         IN  Rect(figure_bbox.x0 - extra_width \div 2, figure_bbox.y0,
                  figure_bbox.x1 + extra_width \div 2, figure_bbox.y1)
    ELSE figure_bbox

expand_within_annotation(figure_bbox, annotation_bbox, padding) ==
    LET final_x0 == figure_bbox.x0 - padding
        final_y0 == figure_bbox.y0 - padding
        expanded_x1 == figure_bbox.x1 + padding
        expanded_y1 == figure_bbox.y1 + padding
        final_y1 == IF expanded_y1 <= final_y0 THEN final_y0 + 1 ELSE expanded_y1
        final_x1 == IF expanded_x1 <= final_x0 THEN final_x0 + 1 ELSE expanded_x1
    IN  Rect(final_x0, final_y0, final_x1, final_y1)

expand_bbox(bbox, padding) ==
    Rect(bbox.x0 - padding, bbox.y0 - padding, bbox.x1 + padding, bbox.y1 + padding)

\* FigureBboxAlignmentFilter.apply
alignment_filter_apply(figure_regions, figure_captions, padding) ==
    [k \in 1..Len(figure_regions) |->
        LET fr == figure_regions[k]
        IN  IF fr.caption = NoCaption
            THEN [fr EXCEPT !.bbox = expand_bbox(fr.bbox, padding)]
            ELSE [fr EXCEPT !.bbox = expand_within_annotation(
                                         align_horizontal(fr.bbox, fr.caption.bbox),
                                         fr.caption.bbox, padding)]]

-----------------------------------------------------------------------------
(* FigureAnnotationOverlapTruncateFilter                                   *)

determine_truncate_direction(figure_bbox, current_annotation, other_bbox) ==
    LET figure_center_y == figure_bbox.y0 + figure_bbox.y1
        overlap_y0 == Max2(figure_bbox.y0, other_bbox.y0)
        overlap_y1 == Min2(figure_bbox.y1, other_bbox.y1)
        overlap_center_y == overlap_y0 + overlap_y1
        overlap_dy == overlap_center_y - figure_center_y
    IN  IF overlap_dy > 0 THEN "bottom" ELSE "top"

\* mutant: a cut from the top stops at the other caption's top edge
truncate_bbox_mut(figure_bbox, other_bbox, direction) ==
    IF direction = "top"
    THEN Rect(figure_bbox.x0, other_bbox.y0, figure_bbox.x1, figure_bbox.y1)
    ELSE IF direction = "bottom"
    THEN Rect(figure_bbox.x0, figure_bbox.y0, figure_bbox.x1, other_bbox.y0)
    ELSE figure_bbox

truncate_bbox(figure_bbox, other_bbox, direction) ==
    IF direction = "left"
    THEN Rect(other_bbox.x1, figure_bbox.y0, figure_bbox.x1, figure_bbox.y1)
    ELSE IF direction = "right"
    THEN Rect(figure_bbox.x0, figure_bbox.y0, other_bbox.x0, figure_bbox.y1)
    ELSE IF direction = "top"
    THEN Rect(figure_bbox.x0, other_bbox.y1, figure_bbox.x1, figure_bbox.y1)
    ELSE IF direction = "bottom"
    THEN Rect(figure_bbox.x0, figure_bbox.y0, figure_bbox.x1, other_bbox.y0)
    ELSE figure_bbox

RECURSIVE truncate_overlapping_bbox(_, _, _)
truncate_overlapping_bbox(figure_bbox, current_annotation, all_captions) ==
    IF all_captions = <<>> THEN figure_bbox
    ELSE LET other_caption == all_captions[1]
         IN  IF other_caption = current_annotation
             THEN truncate_overlapping_bbox(figure_bbox, current_annotation,
                                            Tail(all_captions))
             ELSE IF Intersects(figure_bbox, other_caption.bbox)
             THEN truncate_overlapping_bbox(
                      truncate_bbox(figure_bbox, other_caption.bbox,
                          determine_truncate_direction(figure_bbox, current_annotation,
                                                       other_caption.bbox)),
                      current_annotation, Tail(all_captions))
             ELSE truncate_overlapping_bbox(figure_bbox, current_annotation,
                                            Tail(all_captions))

\* FigureAnnotationOverlapTruncateFilter.apply
truncate_filter_apply(figure_regions, all_captions) ==
    [k \in 1..Len(figure_regions) |->
        LET fr == figure_regions[k]
        IN  IF fr.caption = NoCaption THEN fr
            ELSE [fr EXCEPT !.bbox = truncate_overlapping_bbox(fr.bbox, fr.caption,
                                                               all_captions)]]

\* FigureProcessor._apply_figure_filters
apply_figure_filters(figure_regions, pd) ==
    IF figure_regions = <<>> THEN figure_regions
    ELSE LET filtered == overlap_filter(figure_regions, pd)
             covered == IF filtered # <<>>
                        THEN cover_filter_apply(filtered, pd.figure_captions)
                        ELSE filtered
             aligned == IF covered # <<>>
                        THEN alignment_filter_apply(covered, pd.figure_captions, 10)
                        ELSE covered
         IN  IF aligned # <<>>
             THEN truncate_filter_apply(aligned, pd.figure_captions \o pd.table_captions)
             ELSE aligned

\* _cleanup_orphan_annotations (either processor): the captions that stay
cleanup_orphan_annotations(captions, regions) ==
    LET used_captions == {CaptionKey(regions[k].caption) :
                             k \in {j \in 1..Len(regions) : regions[j].caption # NoCaption}}
    IN  SelectSeq(captions, LAMBDA c : CaptionKey(c) \in used_captions)

-----------------------------------------------------------------------------
(* Generic filters (filters.py) and figure grouping                        *)

\* the rectangle a filter reads from an element: bbox, else rect, else the
\* element itself
RectOf(element) ==
    IF "bbox" \in DOMAIN element THEN element.bbox
    ELSE IF "rect" \in DOMAIN element THEN element.rect
    ELSE element

\* mutant: one unit of tolerance at the right edge
boundary_filter_mut(elements, page_width, page_height) ==
    SelectSeq(elements,
        LAMBDA element :
            LET rect == RectOf(element)
            IN  /\ rect.x0 >= 0
                /\ rect.y0 >= 0
                /\ rect.x1 <= page_width + 1
                /\ rect.y1 <= page_height)

\* BoundaryFilter.apply
boundary_filter(elements, page_width, page_height) ==
    SelectSeq(elements,
        LAMBDA element :
            LET rect == RectOf(element)
            IN  /\ rect.x0 >= 0
                /\ rect.y0 >= 0
                /\ rect.x1 <= page_width
                /\ rect.y1 <= page_height)

\* SizeFilter.apply; max_area_ratio is a ratio, max_area = width * height * ratio
size_filter(elements, page_width, page_height, min_area, max_area_ratio) ==
    SelectSeq(elements,
        LAMBDA element :
            LET area == RectArea(RectOf(element))
            IN  /\ min_area <= area
                /\ area * max_area_ratio.den
                       <= page_width * page_height * max_area_ratio.num)

\* mutant: the scan starts at the second element
height_filter_mut(elements, min_height) ==
    IF elements = <<>> THEN <<>>
    ELSE SelectSeq(Tail(elements),
             LAMBDA element : RectOf(element).y1 - RectOf(element).y0 >= min_height)

\* HeightFilter.apply
height_filter(elements, min_height) ==
    SelectSeq(elements,
        LAMBDA element : RectOf(element).y1 - RectOf(element).y0 >= min_height)

\* FigureProcessor._calculate_distance as 4 * distance^2
figure_calculate_distance(rect1, rect2) ==
    ((rect1.x0 + rect1.x1) - (rect2.x0 + rect2.x1))
        * ((rect1.x0 + rect1.x1) - (rect2.x0 + rect2.x1))
    + ((rect1.y0 + rect1.y1) - (rect2.y0 + rect2.y1))
        * ((rect1.y0 + rect1.y1) - (rect2.y0 + rect2.y1))

Contains(a, b) == a.x0 <= b.x0 /\ a.y0 <= b.y0 /\ a.x1 >= b.x1 /\ a.y1 >= b.y1

\* overlap_ratio of _smart_grouping and of _merge_groups:
\* intersection / min_area if min_area > 0 else 0
group_overlap_ratio(rect1, rect2) ==
    LET x_left == Max2(rect1.x0, rect2.x0)
        y_top == Max2(rect1.y0, rect2.y0)
        x_right == Min2(rect1.x1, rect2.x1)
        y_bottom == Min2(rect1.y1, rect2.y1)
        intersection == IF x_right < x_left \/ y_bottom < y_top THEN 0
                        ELSE (x_right - x_left) * (y_bottom - y_top)
        min_area == Min2(RectArea(rect1), RectArea(rect2))
    IN  IF min_area > 0 THEN Ratio(intersection, min_area) ELSE Zero

\* should_merge of _smart_grouping and of _merge_groups (the same test)
GroupShouldMerge(rect1, rect2) ==
    LET max_dimension == Max2(Max2(rect1.x1 - rect1.x0, rect1.y1 - rect1.y0),
                              Max2(rect2.x1 - rect2.x0, rect2.y1 - rect2.y0))
    IN  \/ RatioGt(group_overlap_ratio(rect1, rect2), 1, 2)
        \/ Contains(rect1, rect2)
        \/ Contains(rect2, rect1)
        \/ /\ max_dimension > 0
           /\ figure_calculate_distance(rect1, rect2) < max_dimension * max_dimension

\* stable insertion for a sort by area, largest first
InsertByArea(sorted, item) ==
    LET before == {k \in 1..Len(sorted) :
                       RectArea(RectOf(sorted[k])) >= RectArea(RectOf(item))}
        n == Cardinality(before)
    IN  SubSeq(sorted, 1, n) \o <<item>> \o SubSeq(sorted, n + 1, Len(sorted))

RECURSIVE SortByArea(_)
SortByArea(items) ==
    IF items = <<>> THEN <<>>
    ELSE InsertByArea(SortByArea(SubSeq(items, 1, Len(items) - 1)), items[Len(items)])

RECURSIVE MergeGroupsInner(_, _, _, _, _, _)
\* the scan of the other groups for main group i; every test uses the main
\* group's original rectangle
MergeGroupsInner(sorted_groups, i, j, used_groups, rect, count) ==
    IF j > Len(sorted_groups) THEN [rect |-> rect, count |-> count, used |-> used_groups]
    ELSE IF j \in used_groups \/ i = j
         THEN MergeGroupsInner(sorted_groups, i, j + 1, used_groups, rect, count)
    ELSE IF GroupShouldMerge(sorted_groups[i].rect, sorted_groups[j].rect)
         THEN MergeGroupsInner(sorted_groups, i, j + 1, used_groups \cup {j},
                               RectUnion(rect, sorted_groups[j].rect),
                               count + sorted_groups[j].count)
    ELSE MergeGroupsInner(sorted_groups, i, j + 1, used_groups, rect, count)

RECURSIVE MergeGroupsOuter(_, _, _, _)
MergeGroupsOuter(sorted_groups, i, used_groups, merged_groups) ==
    IF i > Len(sorted_groups) THEN merged_groups
    ELSE IF i \in used_groups
         THEN MergeGroupsOuter(sorted_groups, i + 1, used_groups, merged_groups)
    ELSE LET r == MergeGroupsInner(sorted_groups, i, 1, used_groups \cup {i},
                                   sorted_groups[i].rect, sorted_groups[i].count)
         IN  MergeGroupsOuter(sorted_groups, i + 1, r.used,
                 Append(merged_groups, [rect |-> r.rect, count |-> r.count]))

\* mutant: the counts of the groups are not carried over
merge_groups_mut(groups) ==
    IF Len(groups) <= 1 THEN groups
    ELSE LET merged == MergeGroupsOuter(SortByArea(groups), 1, {}, <<>>)
         IN  [k \in 1..Len(merged) |-> [rect |-> merged[k].rect, count |-> 1]]

\* FigureProcessor._merge_groups
merge_groups(groups) ==
    IF Len(groups) <= 1 THEN groups
    ELSE MergeGroupsOuter(SortByArea(groups), 1, {}, <<>>)

RECURSIVE SmartInner(_, _, _, _, _)
\* the scan of all rectangles, in input order, for the seed rect1
SmartInner(rects, rect1, j, used, current_group) ==
    IF j > Len(rects) THEN [group |-> current_group, used |-> used]
    ELSE IF j \in used THEN SmartInner(rects, rect1, j + 1, used, current_group)
    ELSE IF GroupShouldMerge(rect1, rects[j])
         THEN SmartInner(rects, rect1, j + 1, used \cup {j}, Append(current_group, rects[j]))
    ELSE SmartInner(rects, rect1, j + 1, used, current_group)

RECURSIVE SmartOuter(_, _, _, _, _)
\* seeds are taken largest first
SmartOuter(rects, rects_with_index, idx, used, groups) ==
    IF idx > Len(rects_with_index) THEN groups
    ELSE IF rects_with_index[idx].i \in used
         THEN SmartOuter(rects, rects_with_index, idx + 1, used, groups)
    ELSE LET r == SmartInner(rects, rects_with_index[idx].rect, 1,
                             used \cup {rects_with_index[idx].i},
                             <<rects_with_index[idx].rect>>)
         IN  SmartOuter(rects, rects_with_index, idx + 1, r.used,
                 Append(groups, [rect |-> UnionAll(r.group[1], Tail(r.group)),
                                 count |-> Len(r.group)]))

\* FigureProcessor._smart_grouping
smart_grouping(drawing_elements) ==
    LET rects == [k \in 1..Len(drawing_elements) |-> drawing_elements[k].rect]
        rects_with_index == SortByArea([k \in 1..Len(rects) |-> [i |-> k, rect |-> rects[k]]])
    IN  merge_groups(SmartOuter(rects, rects_with_index, 1, {}, <<>>))

\* steps 0 to 2 of FigureProcessor.process: the groups handed to
\* _create_figure_regions
figure_groups(pd) ==
    merge_groups(smart_grouping(
        size_filter(boundary_filter(pd.drawing_elements, pd.page_width, pd.page_height),
                    pd.page_width, pd.page_height, 1, Ratio(8, 10))))

\* FigureProcessor.process; returns the regions and the captions left on
\* the page
figure_process(pd) ==
    IF pd.figure_captions = <<>>
    THEN [figure_regions |-> <<>>, figure_captions |-> pd.figure_captions]
    ELSE LET figure_regions ==
                 apply_figure_filters(
                     create_figure_regions(figure_groups(pd), pd.figure_captions), pd)
         IN  [figure_regions |-> figure_regions,
              figure_captions |-> cleanup_orphan_annotations(pd.figure_captions,
                                                             figure_regions)]

-----------------------------------------------------------------------------
(* Table pipeline (TableProcessor.process)                                 *)

\* min(lines, key): the first line with the least key; keys[k] is the key
\* of lines[k]
FirstLeast(lines, keys) ==
    lines[CHOOSE k \in 1..Len(lines) :
              /\ \A m \in 1..Len(lines) : keys[k] <= keys[m]
              /\ \A m \in 1..(k - 1) : keys[m] > keys[k]]

\* max(lines, key): the first line with the greatest key
FirstGreatest(lines, keys) ==
    lines[CHOOSE k \in 1..Len(lines) :
              /\ \A m \in 1..Len(lines) : keys[k] >= keys[m]
              /\ \A m \in 1..(k - 1) : keys[m] < keys[k]]

KeyY0(lines) == [k \in 1..Len(lines) |-> lines[k].y0]

KeyX0(lines) == [k \in 1..Len(lines) |-> lines[k].x0]

\* the envelope of one line group
GroupEnvelope(group) ==
    IF Len(group.lines) > 1
    THEN IF group.group_type = "horizontal"
         THEN LET top_line == FirstLeast(group.lines, KeyY0(group.lines))
                  bottom_line == FirstGreatest(group.lines, KeyY0(group.lines))
              IN  Rect(top_line.x0, top_line.y0, bottom_line.x1, bottom_line.y1)
         ELSE LET left_line == FirstLeast(group.lines, KeyX0(group.lines))
                  right_line == FirstGreatest(group.lines, KeyX0(group.lines))
              IN  Rect(left_line.x0, left_line.y0, right_line.x1, right_line.y1)
    ELSE group.lines[1]

\* TableProcessor._calculate_envelopes
calculate_envelopes(horizontal_groups, vertical_groups) ==
    [k \in 1..Len(horizontal_groups) |-> GroupEnvelope(horizontal_groups[k])]
    \o [k \in 1..Len(vertical_groups) |-> GroupEnvelope(vertical_groups[k])]

\* TableProcessor._is_envelope_contained
is_envelope_contained(outer_envelope, inner_envelope) ==
    /\ inner_envelope.x0 >= outer_envelope.x0
    /\ inner_envelope.x1 <= outer_envelope.x1
    /\ inner_envelope.y0 >= outer_envelope.y0
    /\ inner_envelope.y1 <= outer_envelope.y1

\* mutant: the guard looks at the greater of the two widths
x_overlap_ratio_mut(envelope1, envelope2) ==
    LET x_overlap == Min2(envelope1.x1, envelope2.x1) - Max2(envelope1.x0, envelope2.x0)
        min_width == Min2(envelope1.x1 - envelope1.x0, envelope2.x1 - envelope2.x0)
        max_width == Max2(envelope1.x1 - envelope1.x0, envelope2.x1 - envelope2.x0)
    IN  IF max_width > 0 THEN Ratio(x_overlap, min_width) ELSE Zero

\* x_overlap_ratio of _should_merge_envelopes:
\* x_overlap / min(x_width1, x_width2) if min(x_width1, x_width2) > 0 else 0
x_overlap_ratio(envelope1, envelope2) ==
    LET x_overlap == Min2(envelope1.x1, envelope2.x1) - Max2(envelope1.x0, envelope2.x0)
        min_width == Min2(envelope1.x1 - envelope1.x0, envelope2.x1 - envelope2.x0)
    IN  IF min_width > 0 THEN Ratio(x_overlap, min_width) ELSE Zero

\* TableProcessor._should_merge_envelopes
should_merge_envelopes(envelope1, envelope2) ==
    LET y_gap == IF envelope1.y1 < envelope2.y0 THEN envelope2.y0 - envelope1.y1
                 ELSE IF envelope2.y1 < envelope1.y0 THEN envelope1.y0 - envelope2.y1
                 ELSE 0
    IN  \/ RatioGt(table_calculate_iou(envelope1, envelope2), 8, 10)
        \/ is_envelope_contained(envelope1, envelope2)
        \/ /\ RatioGt(x_overlap_ratio(envelope1, envelope2), 8, 10)
           /\ y_gap < 150

RECURSIVE JointInner(_, _, _, _, _)
\* the scan of the other envelopes; each test uses the envelope merged so far
JointInner(sorted_envelopes, i, j, used_envelopes, current_merged) ==
    IF j > Len(sorted_envelopes) THEN [merged |-> current_merged, used |-> used_envelopes]
    ELSE IF j \in used_envelopes \/ i = j
         THEN JointInner(sorted_envelopes, i, j + 1, used_envelopes, current_merged)
    ELSE IF should_merge_envelopes(current_merged, sorted_envelopes[j])
         THEN JointInner(sorted_envelopes, i, j + 1, used_envelopes \cup {j},
                         RectUnion(current_merged, sorted_envelopes[j]))
    ELSE JointInner(sorted_envelopes, i, j + 1, used_envelopes, current_merged)

RECURSIVE JointOuter(_, _, _, _)
JointOuter(sorted_envelopes, i, used_envelopes, merged_envelopes) ==
    IF i > Len(sorted_envelopes) THEN merged_envelopes
    ELSE IF i \in used_envelopes
         THEN JointOuter(sorted_envelopes, i + 1, used_envelopes, merged_envelopes)
    ELSE LET r == JointInner(sorted_envelopes, i, 1, used_envelopes \cup {i},
                             sorted_envelopes[i])
         IN  JointOuter(sorted_envelopes, i + 1, r.used, Append(merged_envelopes, r.merged))

\* TableProcessor._joint_merge_envelopes
joint_merge_envelopes(envelopes) ==
    IF envelopes = <<>> THEN <<>>
    ELSE JointOuter(SortByArea(envelopes), 1, {}, <<>>)

\* steps 1 to 4 of both page paths: the merged envelopes of the page
page_envelopes(pd) ==
    LET lp == classify_lines(pd.drawing_elements)
    IN  joint_merge_envelopes(
            calculate_envelopes(merge_horizontal_lines(lp, pd.table_captions),
                                merge_vertical_lines(lp)))

\* step 6 of both page paths: BoundaryFilter, SizeFilter, HeightFilter
table_filters(table_regions, pd) ==
    height_filter(
        size_filter(boundary_filter(table_regions, pd.page_width, pd.page_height),
                    pd.page_width, pd.page_height, 10, Ratio(8, 10)),
        20)

\* TableProcessor._process_single_table_page; the caption list is left as
\* it is
process_single_table_page(self, pd) ==
    [table_regions |->
         table_filters(create_table_regions_single_table(self, page_envelopes(pd),
                                                         pd.table_captions), pd),
     table_captions |-> pd.table_captions]

\* TableProcessor._process_multi_table_page; step 7 prunes the caption list
process_multi_table_page(self, pd) ==
    LET table_regions ==
            table_filters(heuristic_multi_table_matching(self, page_envelopes(pd),
                                                         pd.table_captions), pd)
    IN  [table_regions |-> table_regions,
         table_captions |-> cleanup_orphan_annotations(pd.table_captions, table_regions)]

\* TableProcessor.process; returns the regions and the captions left on the
\* page
table_process(self, pd) ==
    IF pd.table_captions = <<>>
    THEN [table_regions |-> <<>>, table_captions |-> pd.table_captions]
    ELSE IF Len(pd.table_captions) = 1 THEN process_single_table_page(self, pd)
    ELSE process_multi_table_page(self, pd)

\* PageAnalyzer.analyze_page on an extracted page
analyze_page(self, pd) ==
    LET t == table_process(self, pd)
        pd1 == [pd EXCEPT !.table_regions = t.table_regions,
                          !.table_captions = t.table_captions]
        f == figure_process(pd1)
    IN  [pd1 EXCEPT !.figure_regions = f.figure_regions,
                    !.figure_captions = f.figure_captions]

-----------------------------------------------------------------------------
(* SpecFigure: the figure pipeline from the merged groups on, one filter   *)
(* per step, in the order of FigureProcessor.process and                   *)
(* _apply_figure_filters.  out.figure_regions is the running list.         *)

MaxFigureElements == 3

MaxFigureCaptions == 2

\* three fragments side by side, a wide one, a flat one lower on the page
\* and a hairline
FigureElements ==
    {DrawingElement(Rect(100, 100, 180, 200), "None"),
     DrawingElement(Rect(190, 100, 290, 200), "None"),
     DrawingElement(Rect(300, 100, 380, 200), "grey"),
     DrawingElement(Rect(100, 100, 290, 200), "grey"),
     DrawingElement(Rect(100, 300, 200, 310), "grey"),
     DrawingElement(Rect(100, 250, 300, 250), "None")}

FigureCaptions ==
    {Caption("Figure 1", Rect(120, 210, 280, 224), "figure"),
     Caption("Figure 2", Rect(100, 312, 200, 322), "figure"),
     Caption("Figure 3", Rect(206, 280, 300, 340), "figure")}

\* the table side of the page as TableProcessor.process left it
FigureTables ==
    {[table_captions |-> <<>>, table_regions |-> <<>>],
     [table_captions |-> <<Caption("Table 1", Rect(206, 280, 300, 340), "table")>>,
      table_regions |-> <<>>],
     [table_captions |-> <<Caption("Table 1", Rect(340, 130, 400, 144), "table")>>,
      table_regions |-> <<TableRegion(Rect(340, 150, 400, 250),
                              Caption("Table 1", Rect(340, 130, 400, 144), "table"), 144)>>]}

InitFigure ==
    /\ pc = "group"
    /\ \E drawing_elements \in InjectiveSeqsUpTo(FigureElements, MaxFigureElements),
          figure_captions \in InjectiveSeqsUpTo(FigureCaptions, MaxFigureCaptions),
          tables \in FigureTables :
            page_data = [drawing_elements |-> drawing_elements,
                         page_width |-> 600,
                         page_height |-> 800,
                         figure_captions |-> figure_captions,
                         table_captions |-> tables.table_captions,
                         table_regions |-> tables.table_regions,
                         figure_regions |-> <<>>]
    /\ inp = page_data
    /\ out = [fn |-> "none", groups |-> <<>>, before |-> <<>>, figure_regions |-> <<>>]
    /\ est = "none"
    /\ tp = "none"
    /\ page_index = 0
    /\ page_data_list = <<>>
    /\ exit_code = "none"

FigureFrame == UNCHANGED <<inp, est, tp, page_index, page_data_list, exit_code>>

\* FigureProcessor.process on a page without figure captions
ProcessNoFigureCaptions ==
    /\ pc = "group"
    /\ page_data.figure_captions = <<>>
    /\ out' = [out EXCEPT !.fn = "return"]
    /\ pc' = "done"
    /\ UNCHANGED page_data
    /\ FigureFrame

GroupElements ==
    /\ pc = "group"
    /\ page_data.figure_captions # <<>>
    /\ out' = [out EXCEPT !.fn = "group", !.groups = figure_groups(page_data)]
    /\ pc' = "create"
    /\ UNCHANGED page_data
    /\ FigureFrame

CreateFigureRegions ==
    /\ pc = "create"
    /\ out' = [out EXCEPT !.fn = "create", !.before = <<>>,
                          !.figure_regions = create_figure_regions(out.groups,
                                                 page_data.figure_captions)]
    /\ pc' = IF out'.figure_regions = <<>> THEN "cleanup" ELSE "overlap"
    /\ UNCHANGED page_data
    /\ FigureFrame

OverlapFilter ==
    /\ pc = "overlap"
    /\ out' = [out EXCEPT !.fn = "overlap", !.before = out.figure_regions,
                          !.figure_regions = overlap_filter(out.figure_regions, page_data)]
    /\ pc' = IF out'.figure_regions = <<>> THEN "cleanup" ELSE "cover"
    /\ UNCHANGED page_data
    /\ FigureFrame

CoverFilter ==
    /\ pc = "cover"
    /\ out' = [out EXCEPT !.fn = "cover", !.before = out.figure_regions,
                          !.figure_regions = cover_filter_apply(out.figure_regions,
                                                 page_data.figure_captions)]
    /\ pc' = IF out'.figure_regions = <<>> THEN "cleanup" ELSE "align"
    /\ UNCHANGED page_data
    /\ FigureFrame

AlignmentFilter ==
    /\ pc = "align"
    /\ out' = [out EXCEPT !.fn = "align", !.before = out.figure_regions,
                          !.figure_regions = alignment_filter_apply(out.figure_regions,
                                                 page_data.figure_captions, 10)]
    /\ pc' = IF out'.figure_regions = <<>> THEN "cleanup" ELSE "truncate"
    /\ UNCHANGED page_data
    /\ FigureFrame

TruncateFilter ==
    /\ pc = "truncate"
    /\ out' = [out EXCEPT !.fn = "truncate", !.before = out.figure_regions,
                          !.figure_regions = truncate_filter_apply(out.figure_regions,
                                  page_data.figure_captions \o page_data.table_captions)]
    /\ pc' = "cleanup"
    /\ UNCHANGED page_data
    /\ FigureFrame

\* step 5, and the regions stored on the page by PageAnalyzer.analyze_page
CleanupFigureCaptions ==
    /\ pc = "cleanup"
    /\ page_data' = [page_data EXCEPT
                        !.figure_captions = cleanup_orphan_annotations(
                                                page_data.figure_captions, out.figure_regions),
                        !.figure_regions = out.figure_regions]
    /\ out' = [out EXCEPT !.fn = "cleanup", !.before = out.figure_regions]
    /\ pc' = "done"
    /\ FigureFrame

NextFigure ==
    \/ ProcessNoFigureCaptions
    \/ GroupElements
    \/ CreateFigureRegions
    \/ OverlapFilter
    \/ CoverFilter
    \/ AlignmentFilter
    \/ TruncateFilter
    \/ CleanupFigureCaptions

SpecFigure == InitFigure /\ [][NextFigure]_vars

\* the steps together are FigureProcessor.process
FigureStepsAreProcess ==
    pc = "done" =>
        /\ page_data.figure_regions = figure_process(inp).figure_regions
        /\ page_data.figure_captions = figure_process(inp).figure_captions

RECURSIVE GreedyCover(_, _, _, _)
\* the merge as the claim states it: the group is closed as soon as the
\* running union covers the caption, the next fragment starts a new group
GreedyCover(figures, annotation_bbox, i, current_bbox) ==
    IF i = Len(figures) THEN <<current_bbox>>
    ELSE IF Covers(current_bbox, annotation_bbox)
         THEN <<current_bbox>>
              \o GreedyCover(figures, annotation_bbox, i + 1, figures[i + 1].bbox)
    ELSE GreedyCover(figures, annotation_bbox, i + 1,
                     Hull(current_bbox, figures[i + 1].bbox))

\* the fragments the cover filter groups under a key, in ascending x0 order
FragmentsOf(key) ==
    SortByX0(SelectSeq(CoverAssign(out.before, page_data.figure_captions),
                       LAMBDA f : GroupKey(f) = key))

BoxesOf(key) ==
    LET rs == SelectSeq(out.figure_regions, LAMBDA f : GroupKey(f) = key)
    IN  [k \in 1..Len(rs) |-> rs[k].bbox]

SharedKeys ==
    {key \in {GroupKey(out.figure_regions[k]) : k \in 1..Len(out.figure_regions)} :
        Len(FragmentsOf(key)) > 1}

\* C6: for the fragments sharing a caption, in ascending x0 order, a merge
\* group is closed as soon as the running union covers the caption's
\* horizontal span and the next fragment starts a new group.
C6_ClosedAsSoonAsCovered ==
    out.fn = "cover" =>
        \A key \in SharedKeys :
            BoxesOf(key) = GreedyCover(FragmentsOf(key), FragmentsOf(key)[1].caption.bbox,
                                       1, FragmentsOf(key)[1].bbox)

\* C6, the three-fragment example: fragments 1+2 first cover the caption, the
\* output is two regions, 1+2 merged and 3 alone (reached, and as C6 says).
C6_ThreeFragments ==
    /\ out.fn = "cover"
    /\ Len(out.before) = 3
    /\ Cardinality(SharedKeys) = 1
    /\ \E key \in SharedKeys :
          LET fs == FragmentsOf(key)
          IN  /\ Len(fs) = 3
              /\ ~Covers(fs[1].bbox, fs[1].caption.bbox)
              /\ Covers(Hull(fs[1].bbox, fs[2].bbox), fs[1].caption.bbox)
              /\ BoxesOf(key) = <<Hull(fs[1].bbox, fs[2].bbox), fs[3].bbox>>

-----------------------------------------------------------------------------
(* SpecPage: PageAnalyzer.analyze_page on one extracted page: the table    *)
(* processor, then the figure processor.                                   *)

MaxPageElements == 3

MaxPageCaptions == 2

\* two ruling lines of one table, a flat figure, a wide figure and a figure
\* reaching beyond the page
PageElements ==
    {DrawingElement(Rect(100, 400, 300, 400), "None"),
     DrawingElement(Rect(100, 440, 300, 440), "None"),
     DrawingElement(Rect(100, 300, 200, 310), "grey"),
     DrawingElement(Rect(100, 100, 290, 200), "grey"),
     DrawingElement(Rect(500, 100, 620, 200), "grey")}

\* one caption right above the ruled table, one far from every drawing
PageTableCaptions ==
    {Caption("Table 1", Rect(150, 376, 250, 390), "table"),
     Caption("Table 2", Rect(400, 600, 500, 616), "table")}

PageFigureCaptions == FigureCaptions

PageEstimators ==
    {<<>>, <<[FreshEstimator EXCEPT !.has = {"_suggested_threshold"},
                                    !.suggested_threshold = 30]>>}

InitPage ==
    /\ pc = "table"
    /\ \E drawing_elements \in InjectiveSeqsUpTo(PageElements, MaxPageElements),
          table_captions \in InjectiveSeqsUpTo(PageTableCaptions, MaxPageCaptions),
          figure_captions \in InjectiveSeqsUpTo(PageFigureCaptions, MaxPageCaptions) :
            page_data = [drawing_elements |-> drawing_elements,
                         page_width |-> 600,
                         page_height |-> 800,
                         figure_captions |-> figure_captions,
                         table_captions |-> table_captions,
                         table_regions |-> <<>>,
                         figure_regions |-> <<>>]
    /\ inp = page_data
    /\ \E e \in PageEstimators : tp = TableProcessorInit(e)
    /\ out = [fn |-> "none"]
    /\ est = "none"
    /\ page_index = 0
    /\ page_data_list = <<>>
    /\ exit_code = "none"

PageFrame == UNCHANGED <<inp, est, tp, page_index, page_data_list, exit_code>>

\* page_data.table_regions = self.table_processor.process(page_data)
TableProcess ==
    /\ pc = "table"
    /\ page_data' = [page_data EXCEPT
                        !.table_regions = table_process(tp, page_data).table_regions,
                        !.table_captions = table_process(tp, page_data).table_captions]
    /\ out' = [fn |-> "table"]
    /\ pc' = "figure"
    /\ PageFrame

\* page_data.figure_regions = self.figure_processor.process(page_data)
FigureProcess ==
    /\ pc = "figure"
    /\ page_data' = [page_data EXCEPT
                        !.figure_regions = figure_process(page_data).figure_regions,
                        !.figure_captions = figure_process(page_data).figure_captions]
    /\ out' = [fn |-> "figure"]
    /\ pc' = "done"
    /\ PageFrame

NextPage == TableProcess \/ FigureProcess

SpecPage == InitPage /\ [][NextPage]_vars

\* the two steps together are analyze_page
PageStepsAreAnalyzePage == pc = "done" => page_data = analyze_page(tp, inp)

\* the captions of a list that no region of a list refers to
Orphans(captions, regions) ==
    {k \in 1..Len(captions) :
        \A r \in 1..Len(regions) : regions[r].caption # captions[k]}

\* C3: after a page has been processed, every caption left in the page's
\* table caption list is referenced by a table region, and every caption left
\* in its figure caption list by a figure region, for any number of captions.
C3_NoOrphanCaptions ==
    pc = "done" =>
        /\ Orphans(page_data.table_captions, page_data.table_regions) = {}
        /\ Orphans(page_data.figure_captions, page_data.figure_regions) = {}

\* C3 holds on the pages with several table captions and for every figure
\* caption list: such a page is processed and loses an orphan caption.
C3_MultiCaptionPruned ==
    /\ pc = "done"
    /\ Len(inp.table_captions) > 1
    /\ Len(page_data.table_captions) < Len(inp.table_captions)
    /\ Len(page_data.figure_captions) < Len(inp.figure_captions)
    /\ Orphans(page_data.table_captions, page_data.table_regions) = {}
    /\ Orphans(page_data.figure_captions, page_data.figure_regions) = {}

ValidBox(bbox) == bbox.x1 >= bbox.x0 /\ bbox.y1 >= bbox.y0

\* C7: every region returned by the table pipeline or the figure pipeline
\* has a valid bounding rectangle: bbox.x1 >= bbox.x0 and bbox.y1 >= bbox.y0.
C7_ValidBoxes ==
    pc = "done" =>
        /\ \A r \in 1..Len(page_data.table_regions) : ValidBox(page_data.table_regions[r].bbox)
        /\ \A r \in 1..Len(page_data.figure_regions) :
              ValidBox(page_data.figure_regions[r].bbox)

\* C7, table side: the table regions of a processed page are valid boxes
\* (a page with a table region is reached).
C7_TableBoxesValid ==
    /\ pc = "done"
    /\ page_data.table_regions # <<>>
    /\ \A r \in 1..Len(page_data.table_regions) : ValidBox(page_data.table_regions[r].bbox)

-----------------------------------------------------------------------------
(* Spec: a document run, main() calling PDFAnalyzer.analyze_pdf: the       *)
(* document is opened, the caption pattern is estimated, the page analyzer *)
(* is built and the pages are analyzed in order.                           *)

MaxPages == 3

\* CaptionPatternEstimator.estimate_pattern_from_pdf; outcome is what the
\* sampling of the document comes to: a pattern was found, none was found,
\* or an exception was raised (and swallowed) before the attributes are set
\* mutant: a successful estimation also sets the prefer-position attribute
estimate_pattern_from_pdf_mut(e, outcome) ==
    IF outcome = "result"
    THEN [e EXCEPT !.has = @ \cup {"_estimated_pattern", "_confidence",
                                   "_suggested_threshold", "_prefer_position"},
                   !.estimated_pattern = "result",
                   !.confidence = "medium",
                   !.suggested_threshold = 50,
                   !.prefer_position = TRUE]
    ELSE IF outcome = "no_result"
    THEN [e EXCEPT !.has = @ \cup {"_estimated_pattern", "_confidence", "_suggested_threshold"},
                   !.estimated_pattern = "None",
                   !.confidence = "low",
                   !.suggested_threshold = 30]
    ELSE e

estimate_pattern_from_pdf(e, outcome) ==
    IF outcome = "result"
    THEN [e EXCEPT !.has = @ \cup {"_estimated_pattern", "_confidence", "_suggested_threshold"},
                   !.estimated_pattern = "result",
                   !.confidence = "medium",
                   !.suggested_threshold = 50]
    ELSE IF outcome = "no_result"
    THEN [e EXCEPT !.has = @ \cup {"_estimated_pattern", "_confidence", "_suggested_threshold"},
                   !.estimated_pattern = "None",
                   !.confidence = "low",
                   !.suggested_threshold = 30]
    ELSE e

BlankPage ==
    [drawing_elements |-> <<>>, page_width |-> 600, page_height |-> 800,
     figure_captions |-> <<>>, table_captions |-> <<>>,
     table_regions |-> <<>>, figure_regions |-> <<>>]

\* a page with a ruled table under its caption, a page with a figure above
\* its caption, a blank page, and a page whose extraction raises
DocPages ==
    {[raises |-> FALSE,
      data |-> [BlankPage EXCEPT
                   !.drawing_elements = <<DrawingElement(Rect(100, 400, 300, 400), "None"),
                                          DrawingElement(Rect(100, 440, 300, 440), "None")>>,
                   !.table_captions = <<Caption("Table 1", Rect(150, 376, 250, 390),
                                                "table")>>]],
     [raises |-> FALSE,
      data |-> [BlankPage EXCEPT
                   !.drawing_elements = <<DrawingElement(Rect(100, 100, 290, 200), "grey")>>,
                   !.figure_captions = <<Caption("Figure 1", Rect(120, 210, 280, 224),
                                                 "figure")>>]],
     [raises |-> FALSE, data |-> BlankPage],
     [raises |-> TRUE, data |-> BlankPage]}

Init ==
    /\ pc = "open"
    /\ \E pages \in SeqsUpTo(DocPages, MaxPages),
          opens \in BOOLEAN,
          estimation \in {"result", "no_result", "exception"} :
            inp = [pages |-> pages, opens |-> opens, estimation |-> estimation]
    /\ out = [fn |-> "none"]
    /\ page_data = BlankPage
    /\ est = <<>>
    /\ tp = <<>>
    /\ page_index = 0
    /\ page_data_list = <<>>
    /\ exit_code = "none"

\* self.doc = fitz.open(pdf_path) raises: main() reports and exits with 1
OpenFails ==
    /\ pc = "open"
    /\ ~inp.opens
    /\ exit_code' = 1
    /\ pc' = "exited"
    /\ UNCHANGED <<inp, out, page_data, est, tp, page_index, page_data_list>>

\* the estimator is created and run; whatever it comes to, analyze_pdf goes on
EstimatePattern ==
    /\ pc = "open"
    /\ inp.opens
    /\ est' = <<estimate_pattern_from_pdf(FreshEstimator, inp.estimation)>>
    /\ pc' = "estimated"
    /\ UNCHANGED <<inp, out, page_data, tp, page_index, page_data_list, exit_code>>

\* PageAnalyzer.__init__ builds the TableProcessor from the estimator
CreatePageAnalyzer ==
    /\ pc = "estimated"
    /\ tp' = <<TableProcessorInit(est)>>
    /\ page_data_list' = <<>>
    /\ page_index' = 0
    /\ pc' = "pages"
    /\ UNCHANGED <<inp, out, page_data, est, exit_code>>

\* one turn of the page loop
AnalyzePage ==
    /\ pc = "pages"
    /\ page_index < Len(inp.pages)
    /\ ~inp.pages[page_index + 1].raises
    /\ page_data' = analyze_page(tp[1], inp.pages[page_index + 1].data)
    /\ page_data_list' = Append(page_data_list, page_data')
    /\ page_index' = page_index + 1
    /\ UNCHANGED <<pc, inp, out, est, tp, exit_code>>

\* the page raises: nothing in the loop or in analyze_pdf catches it, main()
\* reports the error and exits with 1
AnalyzePageRaises ==
    /\ pc = "pages"
    /\ page_index < Len(inp.pages)
    /\ inp.pages[page_index + 1].raises
    /\ exit_code' = 1
    /\ pc' = "exited"
    /\ UNCHANGED <<inp, out, page_data, est, tp, page_index, page_data_list>>

\* analyze_pdf returns the list; main() exits with 1 when it is empty, and
\* goes on to its reports otherwise (exit code 0 stands for that)
ReturnPages ==
    /\ pc = "pages"
    /\ page_index = Len(inp.pages)
    /\ exit_code' = IF page_data_list = <<>> THEN 1 ELSE 0
    /\ pc' = "exited"
    /\ UNCHANGED <<inp, out, page_data, est, tp, page_index, page_data_list>>

Next ==
    \/ OpenFails
    \/ EstimatePattern
    \/ CreatePageAnalyzer
    \/ AnalyzePage
    \/ AnalyzePageRaises
    \/ ReturnPages

Spec == Init /\ [][Next]_vars

FailingPages == {k \in 1..Len(inp.pages) : inp.pages[k].raises}

\* C8: when the extraction of a page raises, only that page is affected: the
\* run is not aborted, every page of the document gets its entry, and the
\* failing page's entry has empty region lists.
C8_PageFailureIsolated ==
    (pc = "exited" /\ inp.opens /\ FailingPages # {}) =>
        /\ exit_code = 0
        /\ Len(page_data_list) = Len(inp.pages)
        /\ \A k \in FailingPages :
              /\ page_data_list[k].table_regions = <<>>
              /\ page_data_list[k].figure_regions = <<>>

\* C8, what the run does: the pages before the first failing page are
\* analyzed, then the run ends with exit code 1 and analyzes no later page.
C8_AbortsAtFailingPage ==
    /\ pc = "exited"
    /\ inp.opens
    /\ FailingPages # {}
    /\ exit_code = 1
    /\ Len(page_data_list) + 1 \in FailingPages
    /\ Len(page_data_list) + 1 < Len(inp.pages)

\* C9: when pattern estimation hits an exception the run continues and the
\* table matcher built from that estimator matches with threshold 30, has no
\* pattern and low confidence.
C9_FailedEstimationThreshold30 ==
    (inp.estimation = "exception" /\ tp # <<>>) =>
        /\ MatchThreshold(tp[1]) = 30
        /\ tp[1].document_pattern = "None"
        /\ tp[1].pattern_confidence = "low"

\* C9, what the run does: after a failed estimation the pages are analyzed
\* by a matcher with no pattern, low confidence and the threshold 50.
C9_FailedEstimationThreshold50 ==
    /\ inp.estimation = "exception"
    /\ pc = "exited"
    /\ exit_code = 0
    /\ tp # <<>>
    /\ MatchThreshold(tp[1]) = 50
    /\ tp[1].document_pattern = "None"
    /\ tp[1].pattern_confidence = "low"

-----------------------------------------------------------------------------
(* Line classification (SpecLines)                                         *)

IsHorizontalLine(e) == e.fill = "None" /\ e.width > e.height

IsVerticalLine(e) == e.fill = "None" /\ ~(e.width > e.height)

\* the rectangles, in input order, of a sequence of elements
RectsOf(elements) == [k \in 1..Len(elements) |-> elements[k].rect]

\* C11: after classify_lines no filled element is in either line list, and
\* every unfilled element is in exactly one list: the horizontal list if its
\* width > height, otherwise the vertical list.
C11_ClassifiedByFillAndShape ==
    pc # "classify" =>
        /\ tp.horizontal_lines = RectsOf(SelectSeq(inp.drawing_elements, IsHorizontalLine))
        /\ tp.vertical_lines = RectsOf(SelectSeq(inp.drawing_elements, IsVerticalLine))

\* C11 witness: a filled element, a square unfilled one and a wide unfilled
\* one were classified: one horizontal line, one vertical line.
C11_Witness ==
    /\ pc # "classify"
    /\ Len(inp.drawing_elements) = 3
    /\ \E k \in 1..3 : inp.drawing_elements[k].fill # "None"
    /\ \E k \in 1..3 : /\ inp.drawing_elements[k].fill = "None"
                       /\ inp.drawing_elements[k].width = inp.drawing_elements[k].height
    /\ Len(tp.horizontal_lines) = 1
    /\ Len(tp.vertical_lines) = 1

-----------------------------------------------------------------------------
(* SpecFilter: the three generic filters applied, in any order and any     *)
(* number of times, to a list of elements of the kinds the filters accept: *)
(* drawing elements, regions, dicts with a rect, bare rectangles.          *)

MaxFilterElements == 3

MaxFilterSteps == 3

\* on a 100 x 100 page: inside, touching the right and bottom edges, one unit
\* beyond the right edge, left of the page, too small and too flat, flat,
\* and larger than 80% of the page
FilterElements ==
    {DrawingElement(Rect(10, 10, 50, 50), "grey"),
     TableRegion(Rect(50, 50, 100, 100), Caption("Table 1", Rect(50, 30, 100, 40), "table"), 0),
     FigureRegion(Rect(60, 10, 101, 50), NoCaption, 0, 1),
     [rect |-> Rect(-5, 10, 40, 60), count |-> 2],
     Rect(20, 20, 22, 22),
     Rect(10, 70, 50, 80),
     Rect(2, 2, 97, 97)}

InitFilter ==
    /\ pc = "filter"
    /\ \E elements \in SeqsUpTo(FilterElements, MaxFilterElements),
          min_area \in {1, 10} :
            inp = [elements |-> elements, page_width |-> 100, page_height |-> 100,
                   min_area |-> min_area, max_area_ratio |-> Ratio(8, 10),
                   min_height |-> 20]
    /\ out = [applied |-> <<>>, lists |-> <<inp.elements>>]
    /\ NoDoc

\* the list the next filter is applied to
CurrentList == out.lists[Len(out.lists)]

ApplyBoundaryFilter ==
    /\ pc = "filter"
    /\ Len(out.applied) < MaxFilterSteps
    /\ out' = [applied |-> Append(out.applied, "boundary"),
               lists |-> Append(out.lists,
                             boundary_filter(CurrentList, inp.page_width, inp.page_height))]
    /\ UNCHANGED <<pc, inp, docvars>>

ApplySizeFilter ==
    /\ pc = "filter"
    /\ Len(out.applied) < MaxFilterSteps
    /\ out' = [applied |-> Append(out.applied, "size"),
               lists |-> Append(out.lists,
                             size_filter(CurrentList, inp.page_width, inp.page_height,
                                         inp.min_area, inp.max_area_ratio))]
    /\ UNCHANGED <<pc, inp, docvars>>

ApplyHeightFilter ==
    /\ pc = "filter"
    /\ Len(out.applied) < MaxFilterSteps
    /\ out' = [applied |-> Append(out.applied, "height"),
               lists |-> Append(out.lists, height_filter(CurrentList, inp.min_height))]
    /\ UNCHANGED <<pc, inp, docvars>>

NextFilter == ApplyBoundaryFilter \/ ApplySizeFilter \/ ApplyHeightFilter

SpecFilter == InitFilter /\ [][NextFilter]_vars

\* the rectangle of an element, read off the element's kind
ElementRect(element) ==
    IF "bbox" \in DOMAIN element THEN element.bbox
    ELSE IF "rect" \in DOMAIN element THEN element.rect
    ELSE element

WithinPage(element) ==
    /\ ElementRect(element).x0 >= 0
    /\ ElementRect(element).y0 >= 0
    /\ ElementRect(element).x1 <= inp.page_width
    /\ ElementRect(element).y1 <= inp.page_height

\* C12: BoundaryFilter.apply keeps an element iff its rectangle lies within
\* [0, page_width] x [0, page_height]; an element whose x1 exceeds page_width
\* is dropped.
C12_BoundaryKeepsIffWithin ==
    \A k \in 1..Len(out.applied) :
        out.applied[k] = "boundary" =>
            /\ out.lists[k + 1] = SelectSeq(out.lists[k], WithinPage)
            /\ \A m \in 1..Len(out.lists[k + 1]) :
                  ElementRect(out.lists[k + 1][m]).x1 <= inp.page_width

\* C12 witness: the filter kept an element touching the right edge and
\* dropped one reaching one unit beyond it.
C12_Witness ==
    /\ out.applied = <<"boundary">>
    /\ \E m \in 1..Len(out.lists[1]) : ElementRect(out.lists[1][m]).x1 = inp.page_width + 1
    /\ \E m \in 1..Len(out.lists[2]) : ElementRect(out.lists[2][m]).x1 = inp.page_width
    /\ Len(out.lists[2]) = Len(out.lists[1]) - 1

RECURSIVE IsSubsequence(_, _)
\* a is b with some entries left out, the others unchanged and in order
IsSubsequence(a, b) ==
    IF a = <<>> THEN TRUE
    ELSE IF b = <<>> THEN FALSE
    ELSE IF a[1] = b[1] THEN IsSubsequence(Tail(a), Tail(b))
    ELSE IsSubsequence(a, Tail(b))

\* the three filters applied to the input list in the order of TableProcessor
InFixedOrder ==
    height_filter(
        size_filter(boundary_filter(inp.elements, inp.page_width, inp.page_height),
                    inp.page_width, inp.page_height, inp.min_area, inp.max_area_ratio),
        inp.min_height)

\* C13: each of the three filters is idempotent (applied twice in a row it
\* gives what it gave once), the three applied in any order give the same
\* list, and a filter only leaves elements out: those it keeps are the input
\* elements, unchanged and in order.
C13_IdempotentAnyOrder ==
    /\ \A k \in 1..(Len(out.applied) - 1) :
          out.applied[k] = out.applied[k + 1] => out.lists[k + 2] = out.lists[k + 1]
    /\ {out.applied[k] : k \in 1..Len(out.applied)} = {"boundary", "size", "height"}
          => CurrentList = InFixedOrder
    /\ \A k \in 1..Len(out.applied) : IsSubsequence(out.lists[k + 1], out.lists[k])
    /\ out.lists[1] = inp.elements

\* C13 witness: the height filter first, then the size filter and the
\* boundary filter, each of which dropped an element of its own.
C13_Witness ==
    /\ out.applied = <<"height", "size", "boundary">>
    /\ Len(out.lists[1]) = 3
    /\ Len(out.lists[2]) = 2
    /\ Len(out.lists[3]) = 1
    /\ Len(out.lists[4]) = 0

\* C13 witness of the repeated case: a filter that dropped an element was
\* applied a second time.
C13_WitnessTwice ==
    /\ Len(out.applied) >= 2
    /\ out.applied[1] = out.applied[2]
    /\ Len(out.lists[2]) < Len(out.lists[1])
    /\ Len(out.lists[2]) > 0

-----------------------------------------------------------------------------
(* Ratio computations (SpecRatio): every quotient the processors form, on  *)
(* any pair of rectangles, degenerate and inverted ones included           *)

InitRatio ==
    /\ pc = "call"
    /\ inp \in [a : GeomRects, b : GeomRects]
    /\ out = [fn |-> "none"]
    /\ NoDoc

\* TableProcessor._calculate_iou
RatioTableIoU ==
    /\ pc = "call"
    /\ pc' = "done"
    /\ out' = [fn |-> "table_iou", skipped |-> FALSE,
               ratio |-> table_calculate_iou(inp.a, inp.b)]
    /\ UNCHANGED <<inp, docvars>>

\* FigureProcessor._calculate_iou
RatioFigureIoU ==
    /\ pc = "call"
    /\ pc' = "done"
    /\ out' = [fn |-> "figure_iou", skipped |-> FALSE,
               ratio |-> figure_calculate_iou(inp.a, inp.b)]
    /\ UNCHANGED <<inp, docvars>>

\* overlap_ratio of two groups in _smart_grouping and _merge_groups
RatioGroupOverlap ==
    /\ pc = "call"
    /\ pc' = "done"
    /\ out' = [fn |-> "group_overlap", skipped |-> FALSE,
               ratio |-> group_overlap_ratio(inp.a, inp.b)]
    /\ UNCHANGED <<inp, docvars>>

\* overlap_ratio of a figure (a) and a caption (b) it intersects
RatioCaptionOverlap ==
    /\ pc = "call"
    /\ Intersects(inp.a, inp.b)
    /\ pc' = "done"
    /\ out' = [fn |-> "caption_overlap", skipped |-> FALSE,
               ratio |-> caption_overlap_ratio(inp.a, inp.b)]
    /\ UNCHANGED <<inp, docvars>>

\* x_overlap_ratio of two envelopes in _should_merge_envelopes
RatioXOverlap ==
    /\ pc = "call"
    /\ pc' = "done"
    /\ out' = [fn |-> "x_overlap", skipped |-> FALSE,
               ratio |-> x_overlap_ratio(inp.a, inp.b)]
    /\ UNCHANGED <<inp, docvars>>

\* length_ratio of two lines in _merge_lines
RatioLineLength ==
    /\ pc = "call"
    /\ pc' = "done"
    /\ LET r == line_length_ratio(inp.a.x1 - inp.a.x0, inp.b.x1 - inp.b.x0)
       IN  out' = [fn |-> "line_length", skipped |-> r.skipped, ratio |-> r.ratio]
    /\ UNCHANGED <<inp, docvars>>

NextRatio ==
    \/ RatioTableIoU
    \/ RatioFigureIoU
    \/ RatioGroupOverlap
    \/ RatioCaptionOverlap
    \/ RatioXOverlap
    \/ RatioLineLength

SpecRatio == InitRatio /\ [][NextRatio]_vars

\* C14: no ratio computation divides by zero: the two IoUs, the overlap
\* ratio over the smaller area, the overlap ratio over the figure area, the
\* x-overlap ratio of envelope merging and the line length ratio all have a
\* non-zero divisor whenever a quotient is formed, for any rectangles,
\* zero-width, zero-height and zero-area ones included
C14_NoDivisionByZero ==
    pc = "done" => out.ratio.den # 0

\* two envelopes, one of zero width and one not, and two lines, one of zero
\* length: the guards answered 0 or skipped the pair
C14_Witness ==
    /\ pc = "done"
    /\ inp.a.x0 = inp.a.x1
    /\ inp.b.x1 > inp.b.x0
    /\ \/ out.fn = "x_overlap" /\ out.ratio = Zero
       \/ out.fn = "line_length" /\ out.skipped

-----------------------------------------------------------------------------
(* One-to-one matching on the multi-caption path (SpecMatch)               *)

\* the candidate lists the resolution stages work on: those of
\* _assign_bbox_to_candidates, position-filtered when the pattern is preferred
SurvivingCandidates ==
    LET assigned == assign_bbox_to_candidates(inp.self, inp.envelopes, inp.table_captions)
    IN  IF inp.self.pattern_estimator # <<>>
           /\ should_prefer_position(inp.self.pattern_estimator[1])
        THEN filter_by_position_pattern(inp.self, assigned, inp.envelopes)
        ELSE assigned

\* the regions emitted for envelope i
RegionsOfEnvelope(i) ==
    {k \in 1..Len(out.table_regions) : out.table_regions[k].bbox = inp.envelopes[i]}

\* some multi-candidate envelope was given a caption that is the only
\* candidate of an envelope
SoleCandidateTaken ==
    \E i, j \in 1..Len(inp.envelopes) :
        /\ Len(SurvivingCandidates[i]) = 1
        /\ Len(SurvivingCandidates[j]) > 1
        /\ \E k \in RegionsOfEnvelope(j) :
              CaptionKey(out.table_regions[k].caption)
                  = CaptionKey(SurvivingCandidates[i][1][1])

\* C15: on the multi-caption path the matching is one-to-one: no envelope is
\* in more than one region, no caption (by centre and text) is in more than
\* one region, and a caption that is some envelope's only candidate is never
\* given to an envelope with several candidates
C15_OneToOne ==
    out.fn = "multi" =>
        /\ \A i \in 1..Len(inp.envelopes) : Cardinality(RegionsOfEnvelope(i)) <= 1
        /\ \A k, l \in 1..Len(out.table_regions) :
              k # l => CaptionKey(out.table_regions[k].caption)
                           # CaptionKey(out.table_regions[l].caption)
        /\ ~SoleCandidateTaken

\* the envelope listed first has two candidates, the nearer (or equally near)
\* of which is the only candidate of the envelope listed second: the second
\* envelope got that caption and the first one the other
C15_Witness ==
    /\ out.fn = "multi"
    /\ Len(inp.envelopes) = 2
    /\ Len(SurvivingCandidates[1]) = 2
    /\ Len(SurvivingCandidates[2]) = 1
    /\ CaptionKey(SurvivingCandidates[1][1][1]) = CaptionKey(SurvivingCandidates[2][1][1])
    /\ Len(out.table_regions) = 2
    /\ out.table_regions[1].bbox = inp.envelopes[2]
    /\ out.table_regions[2].caption = SurvivingCandidates[1][2][1]

-----------------------------------------------------------------------------
(* Table regions and their captions (SpecPage)                             *)

\* the threshold the page's table processor matches with
PageThreshold == IF tp.suggested_threshold > 0 THEN tp.suggested_threshold ELSE 50

\* C16: every TableRegion returned by TableProcessor.process has a caption,
\* one of the page's table captions; its distance_to_caption is the edge
\* distance between its bbox and that caption's bbox, and that distance is no
\* greater than the threshold in use
C16_RegionCaptionWithinThreshold ==
    pc # "table" =>
        \A r \in 1..Len(page_data.table_regions) :
            LET region == page_data.table_regions[r]
            IN  /\ region.caption # NoCaption
                /\ \E k \in 1..Len(inp.table_captions) :
                      region.caption = inp.table_captions[k]
                /\ region.distance_to_caption = EdgeDist(region.bbox, region.caption.bbox)
                /\ region.distance_to_caption <= 4 * PageThreshold * PageThreshold

\* a page with two table captions, one of them far from every drawing, was
\* processed with threshold 30 and has a table region, 10 away from its caption
C16_Witness ==
    /\ pc # "table"
    /\ Len(inp.table_captions) = 2
    /\ tp.suggested_threshold = 30
    /\ Len(page_data.table_regions) = 1
    /\ page_data.table_regions[1].distance_to_caption = 4 * 10 * 10

-----------------------------------------------------------------------------
(* The caption of a figure region through the filters (SpecFigure)         *)

\* rectangle a lies within rectangle b
Within(a, b) == b.x0 <= a.x0 /\ b.y0 <= a.y0 /\ a.x1 <= b.x1 /\ a.y1 <= b.y1

\* the regions the cover filter returned for the fragment: those whose box
\* holds the fragment's box
CoverRegionsOf(fragment) ==
    {k \in 1..Len(out.figure_regions) : Within(fragment.bbox, out.figure_regions[k].bbox)}

\* every fragment handed to the cover filter lies in a returned region that
\* carries the caption the matching stage gave the fragment
CoverKeepsMatchedCaption ==
    \A f \in 1..Len(out.before) :
        \E k \in CoverRegionsOf(out.before[f]) :
            out.figure_regions[k].caption = out.before[f].caption

\* alignment and truncation return the regions with the captions they came with
RefinementKeepsCaption ==
    /\ Len(out.figure_regions) = Len(out.before)
    /\ \A k \in 1..Len(out.before) :
          out.figure_regions[k].caption = out.before[k].caption

\* C17: a figure region's final caption is the one the matching stage assigned
\* to it by minimum edge distance: the cover merge groups the regions by that
\* caption, and no refinement filter replaces it
C17_CaptionFromMatching ==
    /\ out.fn = "cover" => CoverKeepsMatchedCaption
    /\ out.fn \in {"align", "truncate"} => RefinementKeepsCaption

\* C17 holds of the alignment step: a region was given another box and kept
\* its caption
C17_AlignmentKeepsCaption ==
    /\ out.fn = "align"
    /\ RefinementKeepsCaption
    /\ out.figure_regions[1].bbox # out.before[1].bbox

-----------------------------------------------------------------------------
(* Regions against the page and against each other                         *)

\* a box within the page
OnPage(bbox) ==
    /\ bbox.x0 >= 0
    /\ bbox.y0 >= 0
    /\ bbox.x1 <= page_data.page_width
    /\ bbox.y1 <= page_data.page_height

\* C18: every FigureRegion returned by FigureProcessor.process lies within
\* the page, as every TableRegion returned by TableProcessor.process does
C18_RegionsOnPage ==
    pc = "done" =>
        /\ \A r \in 1..Len(page_data.figure_regions) : OnPage(page_data.figure_regions[r].bbox)
        /\ \A r \in 1..Len(page_data.table_regions) : OnPage(page_data.table_regions[r].bbox)

\* C18, table side: a processed page has a table region, and its table
\* regions lie within the page
C18_TableRegionsOnPage ==
    /\ pc = "done"
    /\ page_data.table_regions # <<>>
    /\ \A r \in 1..Len(page_data.table_regions) : OnPage(page_data.table_regions[r].bbox)

\* C19: after analyze_page no FigureRegion's bbox intersects a TableRegion's
\* bbox
C19_FiguresClearOfTables ==
    pc = "done" =>
        \A f \in 1..Len(page_data.figure_regions), t \in 1..Len(page_data.table_regions) :
            ~Intersects(page_data.figure_regions[f].bbox, page_data.table_regions[t].bbox)

-----------------------------------------------------------------------------
(* SpecMargin: analyze_page on pages whose drawings lie close to the page  *)
(* edge or close to a ruled table.                                         *)

MaxMarginElements == 3

MaxMarginCaptions == 2

\* two ruling lines of one table, a figure 4 from the left page edge and a
\* figure 6 to the right of the table
MarginElements ==
    {DrawingElement(Rect(100, 400, 300, 400), "None"),
     DrawingElement(Rect(100, 440, 300, 440), "None"),
     DrawingElement(Rect(4, 100, 104, 200), "grey"),
     DrawingElement(Rect(306, 400, 396, 440), "grey")}

MarginTableCaptions == {Caption("Table 1", Rect(150, 376, 250, 390), "table")}

\* one caption under each figure
MarginFigureCaptions ==
    {Caption("Figure 1", Rect(4, 210, 104, 224), "figure"),
     Caption("Figure 2", Rect(300, 450, 400, 464), "figure")}

InitMargin ==
    /\ pc = "table"
    /\ \E drawing_elements \in InjectiveSeqsUpTo(MarginElements, MaxMarginElements),
          table_captions \in InjectiveSeqsUpTo(MarginTableCaptions, MaxMarginCaptions),
          figure_captions \in InjectiveSeqsUpTo(MarginFigureCaptions, MaxMarginCaptions) :
            page_data = [drawing_elements |-> drawing_elements,
                         page_width |-> 600,
                         page_height |-> 800,
                         figure_captions |-> figure_captions,
                         table_captions |-> table_captions,
                         table_regions |-> <<>>,
                         figure_regions |-> <<>>]
    /\ inp = page_data
    /\ \E e \in PageEstimators : tp = TableProcessorInit(e)
    /\ out = [fn |-> "none"]
    /\ est = "none"
    /\ page_index = 0
    /\ page_data_list = <<>>
    /\ exit_code = "none"

SpecMargin == InitMargin /\ [][NextPage]_vars

\* C19 holds of the regions as they are created: the page has a table region
\* and a figure region, and the box of the figure's drawings does not
\* intersect the table region
C19_GroupsClearOfTables ==
    /\ pc = "done"
    /\ page_data.table_regions # <<>>
    /\ page_data.figure_regions # <<>>
    /\ LET groups == figure_groups(inp)
       IN  \A g \in 1..Len(groups), t \in 1..Len(page_data.table_regions) :
              ~Intersects(groups[g].rect, page_data.table_regions[t].bbox)

-----------------------------------------------------------------------------
(* SpecEnvelope: steps 1 to 3 of the table page paths: the lines are       *)
(* classified, merged into groups, and one envelope is computed per group. *)

\* step 2: merge_horizontal_lines(page_data.table_captions) and
\* merge_vertical_lines()
MergeLineGroups ==
    /\ pc = "merge"
    /\ out' = [fn |-> "merge",
               horizontal_groups |-> merge_horizontal_lines(tp, inp.table_captions),
               vertical_groups |-> merge_vertical_lines(tp),
               envelopes |-> <<>>]
    /\ pc' = "envelope"
    /\ UNCHANGED <<inp, tp, docvars>>

\* step 3: _calculate_envelopes(horizontal_groups, vertical_groups)
CalculateEnvelopes ==
    /\ pc = "envelope"
    /\ out' = [out EXCEPT !.fn = "envelopes",
                          !.envelopes = calculate_envelopes(out.horizontal_groups,
                                                            out.vertical_groups)]
    /\ pc' = "done"
    /\ UNCHANGED <<inp, tp, docvars>>

NextEnvelope == ClassifyLines \/ MergeLineGroups \/ CalculateEnvelopes

SpecEnvelope == InitLines /\ [][NextEnvelope]_vars

\* the groups in the order of their envelopes: horizontal, then vertical
EnvelopeGroups == out.horizontal_groups \o out.vertical_groups

\* the least rectangle holding every line of the group
BoundingBox(lines) ==
    Rect(SetMin({lines[k].x0 : k \in 1..Len(lines)}),
         SetMin({lines[k].y0 : k \in 1..Len(lines)}),
         SetMax({lines[k].x1 : k \in 1..Len(lines)}),
         SetMax({lines[k].y1 : k \in 1..Len(lines)}))

\* C20: the envelope _calculate_envelopes computes for a line group is the
\* minimal bounding rectangle of the group: it is valid (x1 >= x0, y1 >= y0)
\* and contains every member line, for horizontal and vertical groups of any
\* number of members
C20_EnvelopeIsBoundingBox ==
    out.fn = "envelopes" =>
        /\ Len(out.envelopes) = Len(EnvelopeGroups)
        /\ \A g \in 1..Len(EnvelopeGroups) :
              /\ ValidBox(out.envelopes[g])
              /\ \A k \in 1..Len(EnvelopeGroups[g].lines) :
                    Within(EnvelopeGroups[g].lines[k], out.envelopes[g])
              /\ out.envelopes[g] = BoundingBox(EnvelopeGroups[g].lines)

\* C20 holds of a group of two lines of the same horizontal extent: its
\* envelope is their bounding box
C20_EqualExtentGroup ==
    /\ out.fn = "envelopes"
    /\ Len(out.horizontal_groups) = 1
    /\ Len(out.horizontal_groups[1].lines) = 2
    /\ out.horizontal_groups[1].lines[1] # out.horizontal_groups[1].lines[2]
    /\ out.envelopes[1] = BoundingBox(out.horizontal_groups[1].lines)

-----------------------------------------------------------------------------
(* SpecJoint: TableProcessor._joint_merge_envelopes, one iteration of the  *)
(* seed loop per step; out holds the locals of the method.                 *)

MaxJointEnvelopes == 3

\* a wide box, a box 160 below it, a strip between the two, a box within the
\* first, and two vertical hairlines, the shorter within the longer
JointEnvelopes ==
    {Rect(100, 100, 300, 200),
     Rect(150, 360, 250, 460),
     Rect(100, 300, 300, 345),
     Rect(120, 120, 180, 180),
     Rect(400, 150, 400, 200),
     Rect(400, 100, 400, 300)}

InitJoint ==
    /\ pc = "sort"
    /\ inp \in [envelopes : InjectiveSeqsUpTo(JointEnvelopes, MaxJointEnvelopes)]
    /\ out = [fn |-> "none"]
    /\ NoDoc

\* an empty list is returned as it is
JointReturnEmpty ==
    /\ pc = "sort"
    /\ inp.envelopes = <<>>
    /\ out' = [fn |-> "return", sorted_envelopes |-> <<>>, used_envelopes |-> {},
               merged_envelopes |-> <<>>, i |-> 1, seed_used |-> {}]
    /\ pc' = "done"
    /\ UNCHANGED <<inp, docvars>>

\* sorted(envelopes, key=area, reverse=True) and the empty locals
JointSort ==
    /\ pc = "sort"
    /\ inp.envelopes # <<>>
    /\ out' = [fn |-> "sort", sorted_envelopes |-> SortByArea(inp.envelopes),
               used_envelopes |-> {}, merged_envelopes |-> <<>>, i |-> 1,
               seed_used |-> {}]
    /\ pc' = "seed"
    /\ UNCHANGED <<inp, docvars>>

\* if i in used_envelopes: continue
JointSkipUsed ==
    /\ pc = "seed"
    /\ out.i <= Len(out.sorted_envelopes)
    /\ out.i \in out.used_envelopes
    /\ out' = [out EXCEPT !.fn = "skip", !.i = out.i + 1]
    /\ UNCHANGED <<pc, inp, docvars>>

\* one unmerged seed: the scan of the other envelopes, then the seed is closed
\* (merged_envelopes.append); seed_used is used_envelopes as the seed found it
JointCloseSeed ==
    /\ pc = "seed"
    /\ out.i <= Len(out.sorted_envelopes)
    /\ out.i \notin out.used_envelopes
    /\ LET r == JointInner(out.sorted_envelopes, out.i, 1,
                           out.used_envelopes \cup {out.i}, out.sorted_envelopes[out.i])
       IN  out' = [out EXCEPT !.fn = "close", !.i = out.i + 1,
                              !.seed_used = out.used_envelopes,
                              !.used_envelopes = r.used,
                              !.merged_envelopes = Append(out.merged_envelopes, r.merged)]
    /\ UNCHANGED <<pc, inp, docvars>>

\* return merged_envelopes
JointReturn ==
    /\ pc = "seed"
    /\ out.i > Len(out.sorted_envelopes)
    /\ out' = [out EXCEPT !.fn = "return"]
    /\ pc' = "done"
    /\ UNCHANGED <<inp, docvars>>

NextJoint ==
    \/ JointReturnEmpty
    \/ JointSort
    \/ JointSkipUsed
    \/ JointCloseSeed
    \/ JointReturn

SpecJoint == InitJoint /\ [][NextJoint]_vars

\* the steps together are _joint_merge_envelopes
JointStepsAreMerge ==
    pc = "done" => out.merged_envelopes = joint_merge_envelopes(inp.envelopes)

\* the envelope of the seed just closed
ClosedEnvelope == out.merged_envelopes[Len(out.merged_envelopes)]

\* the envelopes not merged into any seed so far
Unmerged == (1..Len(out.sorted_envelopes)) \ out.used_envelopes

\* the envelopes the seed just closed absorbed
AbsorbedBySeed == (out.used_envelopes \ out.seed_used) \ {out.i - 1}

\* C21: when a seed is closed, no still-unmerged envelope satisfies a merge
\* criterion with the seed's grown envelope: every growth is followed by a
\* new test of all the remaining unmerged candidates
C21_ClosedSeedIsSaturated ==
    out.fn = "close" =>
        \A j \in Unmerged :
            ~should_merge_envelopes(ClosedEnvelope, out.sorted_envelopes[j])

\* C21 holds of a seed whose absorbed envelope comes before the other
\* candidates: the seed grew, the candidates after it were tested against the
\* grown envelope, and none of the unmerged ones can be merged
C21_GrownBeforeOthers ==
    /\ out.fn = "close"
    /\ AbsorbedBySeed # {}
    /\ Unmerged # {}
    /\ \A j \in Unmerged : \A a \in AbsorbedBySeed : a < j
    /\ \A j \in Unmerged :
          ~should_merge_envelopes(ClosedEnvelope, out.sorted_envelopes[j])

\* either envelope lies fully within the other
EitherContained(envelope1, envelope2) ==
    \/ is_envelope_contained(envelope1, envelope2)
    \/ is_envelope_contained(envelope2, envelope1)

\* C22: an unmerged envelope E2 is absorbed into the current envelope E1
\* whenever E2 is fully contained in E1 or E1 in E2, zero-area envelopes
\* included, whatever the order of equal-area envelopes: a seed that absorbed
\* nothing (every candidate was tested against the seed itself) leaves no
\* unmerged envelope that contains it or is contained in it
C22_ContainmentAbsorbs ==
    (out.fn = "close" /\ AbsorbedBySeed = {}) =>
        \A j \in Unmerged : ~EitherContained(ClosedEnvelope, out.sorted_envelopes[j])

\* C22 holds when the zero-area envelope E2 lies within the current envelope:
\* a seed absorbed a single line it contains
C22_ContainedLineAbsorbed ==
    /\ out.fn = "close"
    /\ \E a \in AbsorbedBySeed :
          /\ RectArea(out.sorted_envelopes[a]) = 0
          /\ is_envelope_contained(out.sorted_envelopes[out.i - 1], out.sorted_envelopes[a])

-----------------------------------------------------------------------------
(* The join test of line merging (SpecLines)                               *)

\* the length of a line along its orientation
LengthAlong(line, line_type) ==
    IF line_type = "horizontal" THEN line.x1 - line.x0 ELSE line.y1 - line.y0

\* the two lines' lengths are in a ratio (shorter / longer) above 0.95 and
\* their x0 or their y0 differ by less than 5
SimilarLines(line1, line2, line_type) ==
    LET length1 == LengthAlong(line1, line_type)
        length2 == LengthAlong(line2, line_type)
    IN  /\ Max2(length1, length2) > 0
        /\ 100 * Min2(length1, length2) > 95 * Max2(length1, length2)
        /\ \/ Abs(line1.x0 - line2.x0) < 5
           \/ Abs(line1.y0 - line2.y0) < 5

\* the orientation of the groups just merged
MergedType == IF out.fn = "merge_horizontal" THEN "horizontal" ELSE "vertical"

\* every line of a group but the seed passes the test with the group's seed
MembersAreSimilar ==
    \A g \in 1..Len(out.groups) :
        \A k \in 2..Len(out.groups[g].lines) :
            SimilarLines(out.groups[g].lines[1], out.groups[g].lines[k], MergedType)

\* a line in a later group was unused when an earlier seed scanned the lines
\* and did not pass the test with that seed (no caption being involved)
LaterLinesAreDissimilar ==
    (MergedType = "vertical" \/ inp.table_captions = <<>>) =>
        \A g, h \in 1..Len(out.groups) :
            g < h => \A k \in 1..Len(out.groups[h].lines) :
                        ~SimilarLines(out.groups[g].lines[1], out.groups[h].lines[k],
                                      MergedType)

\* C23: for horizontal and for vertical lines alike, an unused line joins the
\* seed's group exactly when the ratio of the two lengths (shorter / longer,
\* measured along the lines' orientation) exceeds 0.95 and their x0 or their
\* y0 differ by less than 5 (a caption centroid between them aside)
C23_JoinByLengthAlongOrientation ==
    out.fn \in {"merge_horizontal", "merge_vertical"} =>
        MembersAreSimilar /\ LaterLinesAreDissimilar

\* C23 holds of horizontal lines: a page without captions gave a group of two
\* horizontal lines and a second group, and the test decided both
C23_HorizontalLinesJoin ==
    /\ out.fn = "merge_horizontal"
    /\ inp.table_captions = <<>>
    /\ Len(out.groups) = 2
    /\ Len(out.groups[1].lines) = 2
    /\ MembersAreSimilar
    /\ LaterLinesAreDissimilar

-----------------------------------------------------------------------------
(* SpecTruncate: FigureAnnotationOverlapTruncateFilter.apply on figure     *)
(* regions of one box, captioned below, captioned above or uncaptioned,    *)
(* and any list of captions.                                               *)

MaxTruncateRegions == 2

MaxTruncateCaptions == 3

TruncateBox == Rect(100, 100, 300, 300)

CaptionBelow == Caption("Figure 1", Rect(120, 310, 280, 324), "figure")

CaptionAbove == Caption("Figure 2", Rect(120, 70, 280, 84), "figure")

TruncateRegions ==
    {FigureRegion(TruncateBox, CaptionBelow, 400, 1),
     FigureRegion(TruncateBox, CaptionAbove, 1024, 2),
     FigureRegion(TruncateBox, NoCaption, 0, 3)}

\* the two own captions, a caption over the top edge of the box, one over
\* its bottom edge, a table caption across its middle, a caption covering it
\* and a caption away from it
TruncateCaptions ==
    {CaptionBelow,
     CaptionAbove,
     Caption("Figure 3", Rect(150, 90, 250, 120), "figure"),
     Caption("Figure 4", Rect(150, 280, 250, 306), "figure"),
     Caption("Table 1", Rect(90, 150, 310, 250), "table"),
     Caption("Table 2", Rect(50, 50, 350, 350), "table"),
     Caption("Figure 5", Rect(400, 400, 500, 420), "figure")}

InitTruncate ==
    /\ pc = "call"
    /\ inp \in [figure_regions : SeqsUpTo(TruncateRegions, MaxTruncateRegions),
                all_captions : InjectiveSeqsUpTo(TruncateCaptions, MaxTruncateCaptions)]
    /\ out = [fn |-> "none"]
    /\ NoDoc

ApplyTruncateFilter ==
    /\ pc = "call"
    /\ out' = [fn |-> "truncate",
               figure_regions |-> truncate_filter_apply(inp.figure_regions,
                                                        inp.all_captions)]
    /\ pc' = "done"
    /\ UNCHANGED <<inp, docvars>>

NextTruncate == ApplyTruncateFilter

SpecTruncate == InitTruncate /\ [][NextTruncate]_vars

\* C24: after the overlap-truncate filter no captioned region's bbox
\* intersects the bbox of a caption other than its own, whatever the order of
\* the captions; only y0 and y1 of a bbox may have changed (x0, x1, caption,
\* distance_to_caption and element_count are as they were), and uncaptioned
\* regions are untouched
C24_TruncatedClearOfCaptions ==
    pc = "done" =>
        /\ Len(out.figure_regions) = Len(inp.figure_regions)
        /\ \A k \in 1..Len(inp.figure_regions) :
              LET before == inp.figure_regions[k]
                  after == out.figure_regions[k]
              IN  /\ after.bbox.x0 = before.bbox.x0
                  /\ after.bbox.x1 = before.bbox.x1
                  /\ after.caption = before.caption
                  /\ after.distance_to_caption = before.distance_to_caption
                  /\ after.element_count = before.element_count
                  /\ before.caption = NoCaption => after = before
                  /\ before.caption # NoCaption =>
                        \A c \in 1..Len(inp.all_captions) :
                            inp.all_captions[c] # before.caption
                                => ~Intersects(after.bbox, inp.all_captions[c].bbox)

\* a captioned region was cut at the top for one caption and at the bottom
\* for another, next to an uncaptioned region of the same box
C24_Witness ==
    /\ pc = "done"
    /\ Len(inp.figure_regions) = 2
    /\ inp.figure_regions[1].caption = CaptionBelow
    /\ inp.figure_regions[2].caption = NoCaption
    /\ out.figure_regions[1].bbox = Rect(100, 120, 300, 280)
    /\ out.figure_regions[2].bbox = TruncateBox

\* the captions of the list, other than the region's own, that the region's
\* box intersects
OverlappingOthers(region) ==
    {c \in 1..Len(inp.all_captions) :
        /\ inp.all_captions[c] # region.caption
        /\ Intersects(region.bbox, inp.all_captions[c].bbox)}

\* the side of the overlap away from the own caption: the bottom when the
\* overlap's vertical centre lies below the own caption's centre, else the
\* top (centres doubled)
SideAwayFromCaption(figure_bbox, current_annotation, other_bbox) ==
    LET overlap_center_y == Max2(figure_bbox.y0, other_bbox.y0)
                                + Min2(figure_bbox.y1, other_bbox.y1)
    IN  IF overlap_center_y > current_annotation.center_y THEN "bottom" ELSE "top"

\* the side on which the box was cut
SideCut(before, after) ==
    IF after.y0 # before.y0 THEN "top"
    ELSE IF after.y1 # before.y1 THEN "bottom"
    ELSE "none"

\* C25: the side on which a figure bbox is cut is determined by where the
\* overlap's vertical centroid lies relative to the vertical centre of the
\* figure's own caption: the cut is on the side of the overlap away from the
\* own caption (regions overlapped by one other caption)
C25_CutAwayFromOwnCaption ==
    pc = "done" =>
        \A k \in 1..Len(inp.figure_regions) :
            LET region == inp.figure_regions[k]
            IN  (region.caption # NoCaption /\ Cardinality(OverlappingOthers(region)) = 1) =>
                    \A c \in OverlappingOthers(region) :
                        SideCut(region.bbox, out.figure_regions[k].bbox)
                            = SideAwayFromCaption(region.bbox, region.caption,
                                                  inp.all_captions[c].bbox)

\* C25 holds when the overlap and the own caption are on opposite sides of
\* the figure's centre: the region captioned below, overlapped at its top
\* edge, was cut at the top
C25_OppositeSidesCutAway ==
    /\ pc = "done"
    /\ Len(inp.figure_regions) = 1
    /\ inp.figure_regions[1].caption = CaptionBelow
    /\ Cardinality(OverlappingOthers(inp.figure_regions[1])) = 1
    /\ out.figure_regions[1].bbox = Rect(100, 120, 300, 300)
    /\ \A c \in OverlappingOthers(inp.figure_regions[1]) :
          SideAwayFromCaption(TruncateBox, CaptionBelow, inp.all_captions[c].bbox) = "top"

-----------------------------------------------------------------------------
(* SpecAlign: FigureBboxAlignmentFilter.apply on regions narrower and      *)
(* wider than their caption, flat, close to the page edge, or uncaptioned. *)

MaxAlignRegions == 2

\* a narrow box, a wide box, a flat box of height 0 and a box 2 from the
\* left page edge
AlignBoxes ==
    {Rect(100, 100, 160, 200),
     Rect(100, 100, 300, 200),
     Rect(100, 100, 200, 100),
     Rect(2, 100, 62, 200)}

\* no caption, a caption 100 wide and a caption 160 wide
AlignCaptions ==
    {NoCaption,
     Caption("Figure 1", Rect(80, 210, 180, 224), "figure"),
     Caption("Figure 2", Rect(50, 210, 210, 224), "figure")}

AlignRegions ==
    {FigureRegion(bbox, caption, 400, 1) : bbox \in AlignBoxes, caption \in AlignCaptions}

\* the default padding of apply, which is also what _apply_figure_filters
\* passes, and a smaller one
AlignPaddings == {10, 4}

InitAlign ==
    /\ pc = "call"
    /\ inp \in [figure_regions : SeqsUpTo(AlignRegions, MaxAlignRegions),
                padding : AlignPaddings]
    /\ out = [fn |-> "none"]
    /\ NoDoc

ApplyAlignmentFilter ==
    /\ pc = "call"
    /\ out' = [fn |-> "align",
               figure_regions |-> alignment_filter_apply(inp.figure_regions, <<>>,
                                                         inp.padding)]
    /\ pc' = "done"
    /\ UNCHANGED <<inp, docvars>>

NextAlign == ApplyAlignmentFilter

SpecAlign == InitAlign /\ [][NextAlign]_vars

RectWidth(r) == r.x1 - r.x0

RectHeight(r) == r.y1 - r.y0

-----------------------------------------------------------------------------
(* Primitive counts through the cover merge (SpecFigure)                   *)

\* the fragments merged into a returned region: those grouped under its
\* caption whose box lies within the region's box
FragmentsIn(region) ==
    SelectSeq(FragmentsOf(GroupKey(region)), LAMBDA f : Within(f.bbox, region.bbox))

\* C27: the annotation-cover merge conserves the primitive count: each
\* returned region's element_count is the sum over the fragments merged into
\* it, and the total over the returned regions is the total over the input
\* regions, also when a caption's fragments end in several merged regions
C27_CountConserved ==
    out.fn = "cover" =>
        /\ \A k \in 1..Len(out.figure_regions) :
              out.figure_regions[k].element_count
                  = SumCounts(FragmentsIn(out.figure_regions[k]))
        /\ SumCounts(out.figure_regions) = SumCounts(out.before)

\* C27 holds when a caption's fragments end in one region: two fragments were
\* merged into a single region that carries the sum of their counts
C27_OneMergedRegion ==
    /\ out.fn = "cover"
    /\ Len(out.before) = 2
    /\ Len(out.figure_regions) = 1
    /\ out.figure_regions[1].element_count
           = out.before[1].element_count + out.before[2].element_count

-----------------------------------------------------------------------------
(* Figure clustering as a partition (SpecFigure)                           *)

\* the rectangles _smart_grouping receives: those of the elements that pass
\* the boundary filter and the minimum-area filter
ClusteredRects ==
    LET valid_elements ==
            size_filter(boundary_filter(inp.drawing_elements, inp.page_width,
                                        inp.page_height),
                        inp.page_width, inp.page_height, 1, Ratio(8, 10))
    IN  [k \in 1..Len(valid_elements) |-> valid_elements[k].rect]

\* an assignment of every input rectangle to one group, each rectangle
\* within its group's rectangle, each group holding as many as it counts
IsPartition(f) ==
    /\ \A k \in 1..Len(ClusteredRects) : Within(ClusteredRects[k], out.groups[f[k]].rect)
    /\ \A g \in 1..Len(out.groups) :
          Cardinality({k \in 1..Len(ClusteredRects) : f[k] = g}) = out.groups[g].count

-----------------------------------------------------------------------------
(* SpecEstimator: a CaptionPatternEstimator is created, any sequence of    *)
(* its operations is applied to it, a TableProcessor is built from it and  *)
(* a page with several table captions is matched.                          *)

MaxEstimatorOps == 3

MaxEstimatorEnvelopes == 2

InitEstimator ==
    /\ pc = "estimator"
    /\ \E envelopes \in InjectiveSeqsUpTo(MatchEnvelopes, MaxEstimatorEnvelopes),
          table_captions \in InjectiveSeqsUpTo(MatchCaptions, 2) :
            /\ Len(table_captions) = 2
            /\ inp = [envelopes |-> envelopes, table_captions |-> table_captions]
    /\ out = [fn |-> "none"]
    /\ page_data = "none"
    /\ est = <<FreshEstimator>>
    /\ tp = "none"
    /\ page_index = 0
    /\ page_data_list = <<>>
    /\ exit_code = "none"

\* estimate_pattern_from_pdf on the estimator, whatever it has stored so far
EstimatorEstimate ==
    /\ pc = "estimator"
    /\ page_index < MaxEstimatorOps
    /\ \E outcome \in {"result", "no_result", "exception"} :
          est' = <<estimate_pattern_from_pdf(est[1], outcome)>>
    /\ page_index' = page_index + 1
    /\ UNCHANGED <<pc, inp, out, page_data, tp, page_data_list, exit_code>>

\* the four getters are read
EstimatorGet ==
    /\ pc = "estimator"
    /\ page_index < MaxEstimatorOps
    /\ out' = [fn |-> "getters",
               estimated_pattern |-> get_estimated_pattern(est[1]),
               confidence |-> get_confidence(est[1]),
               suggested_threshold |-> get_suggested_threshold(est[1]),
               prefer_position |-> should_prefer_position(est[1])]
    /\ page_index' = page_index + 1
    /\ UNCHANGED <<pc, inp, page_data, est, tp, page_data_list, exit_code>>

\* TableProcessor(pattern_estimator)
EstimatorBuildProcessor ==
    /\ pc = "estimator"
    /\ tp' = <<TableProcessorInit(est)>>
    /\ pc' = "call"
    /\ UNCHANGED <<inp, out, page_data, est, page_index, page_data_list, exit_code>>

EstimatorMatch ==
    /\ pc = "call"
    /\ out' = [fn |-> "multi",
               table_regions |-> heuristic_multi_table_matching(
                                     tp[1], inp.envelopes, inp.table_captions)]
    /\ pc' = "done"
    /\ UNCHANGED <<inp, docvars>>

NextEstimator ==
    \/ EstimatorEstimate
    \/ EstimatorGet
    \/ EstimatorBuildProcessor
    \/ EstimatorMatch

SpecEstimator == InitEstimator /\ [][NextEstimator]_vars

\* the multi-caption matching with the position filter left out
MatchingWithoutPositionFilter(self, envelopes, table_captions) ==
    LET bbox_candidates == assign_bbox_to_candidates(self, envelopes, table_captions)
        one == resolve_one_to_one_matches(bbox_candidates, envelopes)
        remaining_candidates ==
            resolve_multi_candidates(bbox_candidates, envelopes, one.used_captions)
    IN  one.table_regions \o create_final_table_regions(remaining_candidates, envelopes, 1)

\* C29: whatever operations have been applied to the estimator, its
\* prefer-position flag reads false, and the multi-caption matching of a
\* processor built from it is the matching without the position filter.
C29_PreferPositionFalse ==
    /\ ~should_prefer_position(est[1])
    /\ out.fn = "getters" => ~out.prefer_position
    /\ out.fn = "multi" =>
          out.table_regions =
              MatchingWithoutPositionFilter(tp[1], inp.envelopes, inp.table_captions)

\* a pattern was estimated after an earlier operation, and the position
\* filter, had it run, would have removed candidates of a matched page
C29_Witness ==
    /\ out.fn = "multi"
    /\ page_index >= 2
    /\ get_estimated_pattern(est[1]) = "result"
    /\ out.table_regions # <<>>
    /\ LET assigned == assign_bbox_to_candidates(tp[1], inp.envelopes, inp.table_captions)
       IN  filter_by_position_pattern(tp[1], assigned, inp.envelopes) # assigned

-----------------------------------------------------------------------------
(* SpecSequence: one PageAnalyzer processes the pages of a document one    *)
(* after another.  The analyzer is the TableProcessor with the             *)
(* LineProcessor it owns, whose two line lists outlive a page; the         *)
(* FigureProcessor keeps nothing but its filter list.                      *)

MaxSequencePages == 3

\* PageAnalyzer.__init__: the TableProcessor and its LineProcessor
PageAnalyzerInit(pattern_estimator) ==
    [table_processor |-> TableProcessorInit(pattern_estimator),
     line_processor |-> LineProcessorInit]

\* mutant: the line lists are not cleared before they are refilled
LineProcessor_classify_lines_mut(lp, drawing_elements) ==
    ClassifyLoop(drawing_elements, 1, lp)

\* LineProcessor.classify_lines on a processor that holds the lines of the
\* page before: clear() on both lists, then the loop
LineProcessor_classify_lines(lp, drawing_elements) ==
    ClassifyLoop(drawing_elements, 1,
                 [lp EXCEPT !.horizontal_lines = <<>>, !.vertical_lines = <<>>])

\* steps 2 to 4 of both page paths, on the lines the processor holds
EnvelopesOfLines(lp, pd) ==
    joint_merge_envelopes(
        calculate_envelopes(merge_horizontal_lines(lp, pd.table_captions),
                            merge_vertical_lines(lp)))

\* steps 5 and 6 of the page path the number of captions selects
TableRegionsOfEnvelopes(self, merged_envelopes, pd) ==
    table_filters(
        IF Len(pd.table_captions) = 1
        THEN create_table_regions_single_table(self, merged_envelopes, pd.table_captions)
        ELSE heuristic_multi_table_matching(self, merged_envelopes, pd.table_captions),
        pd)

\* what the page path leaves: the regions, the captions (pruned on the
\* multi-caption path, step 7) and the line processor
TablePathResult(table_regions, lp, pd) ==
    [table_regions |-> table_regions,
     table_captions |->
         IF Len(pd.table_captions) = 1 THEN pd.table_captions
         ELSE cleanup_orphan_annotations(pd.table_captions, table_regions),
     line_processor |-> lp]

\* _process_single_table_page and _process_multi_table_page from step 2 on
TablePathFromLines(self, lp, pd) ==
    TablePathResult(TableRegionsOfEnvelopes(self, EnvelopesOfLines(lp, pd), pd), lp, pd)

\* TableProcessor.process on the analyzer's processors; returns the regions,
\* the captions left on the page and the line processor as the call leaves it
TableProcessor_process(analyzer, pd) ==
    IF pd.table_captions = <<>>
    THEN [table_regions |-> <<>>, table_captions |-> pd.table_captions,
          line_processor |-> analyzer.line_processor]
    ELSE TablePathFromLines(
             analyzer.table_processor,
             LineProcessor_classify_lines(analyzer.line_processor, pd.drawing_elements),
             pd)

\* the page data once the figure processor has run on it
WithFigures(pd1, f) ==
    [pd1 EXCEPT !.figure_regions = f.figure_regions,
                !.figure_captions = f.figure_captions]

\* analyze_page after the table processor returned t
AnalyzeAfterTables(analyzer, pd1, t) ==
    [page_data |-> WithFigures(pd1, figure_process(pd1)),
     analyzer |-> [analyzer EXCEPT !.line_processor = t.line_processor]]

\* the page data once the table processor has run on it
WithTables(pd, t) ==
    [pd EXCEPT !.table_regions = t.table_regions,
               !.table_captions = t.table_captions]

\* PageAnalyzer.analyze_page; returns the page data and the analyzer after it
PageAnalyzer_analyze_page(analyzer, pd) ==
    LET t == TableProcessor_process(analyzer, pd)
    IN  AnalyzeAfterTables(analyzer, WithTables(pd, t), t)

\* a ruled table low on the page, a ruled table high on the page, a page
\* with both tables, rules without a caption, a figure, and a blank page
SequencePages ==
    {[BlankPage EXCEPT
         !.drawing_elements = <<DrawingElement(Rect(100, 400, 300, 400), "None"),
                                DrawingElement(Rect(100, 440, 300, 440), "None")>>,
         !.table_captions = <<Caption("Table 1", Rect(150, 376, 250, 390), "table")>>],
     [BlankPage EXCEPT
         !.drawing_elements = <<DrawingElement(Rect(100, 200, 300, 200), "None"),
                                DrawingElement(Rect(100, 260, 300, 260), "None"),
                                DrawingElement(Rect(100, 200, 100, 260), "None")>>,
         !.table_captions = <<Caption("Table 2", Rect(150, 176, 250, 190), "table")>>],
     [BlankPage EXCEPT
         !.drawing_elements = <<DrawingElement(Rect(100, 600, 300, 600), "None"),
                                DrawingElement(Rect(100, 640, 300, 640), "None"),
                                DrawingElement(Rect(100, 100, 300, 100), "None"),
                                DrawingElement(Rect(100, 140, 300, 140), "None")>>,
         !.table_captions = <<Caption("Table 3", Rect(150, 576, 250, 590), "table"),
                              Caption("Table 4", Rect(150, 76, 250, 90), "table")>>],
     [BlankPage EXCEPT
         !.drawing_elements = <<DrawingElement(Rect(100, 500, 300, 500), "None"),
                                DrawingElement(Rect(100, 540, 300, 540), "None")>>],
     [BlankPage EXCEPT
         !.drawing_elements = <<DrawingElement(Rect(100, 100, 290, 200), "grey")>>,
         !.figure_captions = <<Caption("Figure 1", Rect(120, 210, 280, 224), "figure")>>],
     BlankPage}

InitSequence ==
    /\ pc = "create"
    /\ \E pages \in SeqsUpTo(SequencePages, MaxSequencePages),
          estimation \in {"result", "no_result", "exception"} :
            inp = [pages |-> pages, estimation |-> estimation]
    /\ out = [fn |-> "none"]
    /\ page_data = BlankPage
    /\ est = "none"
    /\ tp = <<>>
    /\ page_index = 0
    /\ page_data_list = <<>>
    /\ exit_code = "none"

\* PageAnalyzer(output_dir, pattern_estimator)
SequenceCreateAnalyzer ==
    /\ pc = "create"
    /\ tp' = <<PageAnalyzerInit(
                  <<estimate_pattern_from_pdf(FreshEstimator, inp.estimation)>>)>>
    /\ pc' = "pages"
    /\ UNCHANGED <<inp, out, page_data, est, page_index, page_data_list, exit_code>>

\* analyze_page on the next page, with the analyzer as the last page left it
SequenceAnalyzePage ==
    /\ pc = "pages"
    /\ page_index < Len(inp.pages)
    /\ \E r \in {PageAnalyzer_analyze_page(tp[1], inp.pages[page_index + 1])} :
          /\ page_data' = r.page_data
          /\ tp' = <<r.analyzer>>
    /\ page_data_list' = Append(page_data_list, page_data')
    /\ page_index' = page_index + 1
    /\ UNCHANGED <<pc, inp, out, est, exit_code>>

NextSequence == SequenceCreateAnalyzer \/ SequenceAnalyzePage

SpecSequence == InitSequence /\ [][NextSequence]_vars

\* the page processed first by an analyzer built from the same estimator
PageAlone(pd) ==
    PageAnalyzer_analyze_page(
        PageAnalyzerInit(<<estimate_pattern_from_pdf(FreshEstimator, inp.estimation)>>),
        pd).page_data

\* C30: the result of a page does not depend on the pages the same analyzer
\* processed before it: it is the result of the page processed alone.
C30_PagesIndependent ==
    \A k \in 1..Len(page_data_list) : page_data_list[k] = PageAlone(inp.pages[k])

\* a page with a table was processed by an analyzer that still held the
\* lines of another page with a table
C30_Witness ==
    /\ pc = "pages"
    /\ page_index >= 2
    /\ page_data.table_regions # <<>>
    /\ \E k \in 1..(page_index - 1) :
          /\ page_data_list[k].table_regions # <<>>
          /\ inp.pages[k].drawing_elements # inp.pages[page_index].drawing_elements

====
